---- MODULE Spec2Model ----
(***************************************************************************)
(* State-machine model of the transcription service's bookkeeping core:    *)
(*   - JobManager (src/web/services/job_manager.py): the in-memory job     *)
(*     registry and the background runner run_transcription_job;           *)
(*   - CacheManager (src/enhancement/performance_optimizations.py) and the *)
(*     cache use of TranscriptionService.transcribe_file                   *)
(*     (src/core/transcription_service.py).                                *)
(*   - the worker threads of ParallelProcessor.process_batch, which share  *)
(*     the CacheManager;                                                   *)
(*   - ChunkedProcessor (src/poc/chunked_processor.py): splitting a long   *)
(*     source, transcribing the chunks and merging the results;            *)
(*   - StreamingTranscriber (src/web/services/streaming_transcriber.py)    *)
(*     and the WebSocket handler that drives it (src/web/routes/           *)
(*     websocket.py).                                                      *)
(* Time is counted in ticks; TicksPerHour ticks make one hour.             *)
(***************************************************************************)
EXTENDS Integers, Sequences, FiniteSets, TLC

VARIABLES
    jobs,          \* JobManager._jobs: job_id -> Job
    lock,          \* JobManager._lock: NoHolder, or the task holding it
    clock,         \* datetime.now() / the filesystem's time, in ticks
    nextId,        \* the next fresh job id (uuid4 in the code)
    wpc,           \* run_transcription_job task of each job: position
    ret,           \* the last registry call and what it returned
    nCreated,      \* number of create_job calls so far
    nDeleted,      \* number of delete_job calls that returned True so far
    files,         \* the input files on disk: path -> os.stat (size, mtime)
    cache,         \* the .pkl files under CacheManager.cache_dir
    cache_hits,    \* CacheManager.cache_hits
    cache_misses,  \* CacheManager.cache_misses
    engine_calls,  \* number of TranscriptionEngine.transcribe_audio calls so far
    ncalls,        \* number of cache and transcribe_file calls made so far
    cret,          \* the last cache or transcribe_file call and what it returned
    batch,         \* batch_transcribe: the worker threads of process_batch
    chunked,       \* ChunkedProcessor.process_large_file: its progress and data
    stream,        \* one /transcribe WebSocket connection and its StreamingTranscriber
    session,       \* one RecordingSession, its temp directory and the SessionManager
    ws,            \* one websocket_transcribe handler: its locals and the events sent
    race,          \* one cache file, a thread writing it and a thread reading it
    api            \* the shared TranscriptionAPI and the jobs of its executor

\* the variables of the job registry, and the variables outside it
jobVars == <<jobs, lock, nextId, wpc, ret, nCreated, nDeleted>>
notJobs == <<files, cache, cache_hits, cache_misses, engine_calls, ncalls, cret,
             batch, chunked, stream, session, ws, race, api>>

\* the variables of the result cache, and the variables outside it
cacheVars == <<files, cache, cache_hits, cache_misses, engine_calls, ncalls, cret>>
notCache == <<jobs, lock, nextId, wpc, ret, nCreated, nDeleted, batch, chunked,
              stream, session, ws, race, api>>

\* the variables outside the parallel batch, which works on the cache
notBatch == <<jobs, lock, nextId, wpc, ret, nCreated, nDeleted, ncalls, cret, clock,
              chunked, stream, session, ws, race, api>>

\* the variables outside chunked processing
notChunked == <<jobVars, cacheVars, batch, stream, session, ws, race, api, clock>>

\* the variables outside live streaming
notStream == <<jobVars, cacheVars, batch, chunked, session, ws, race, api, clock>>

\* the variables outside the recording session
notSession == <<jobVars, cacheVars, batch, chunked, stream, ws, race, api, clock>>

\* the variables outside the WebSocket handler
notWs == <<jobVars, cacheVars, batch, chunked, stream, session, race, api, clock>>

\* the variables outside the cache file race
notRace == <<jobVars, cacheVars, batch, chunked, stream, session, ws, api, clock>>

\* the variables outside the TranscriptionAPI
notApi == <<jobVars, cacheVars, batch, chunked, stream, session, ws, race, clock>>

\* everything but the clock
notClock == <<jobVars, cacheVars, batch, chunked, stream, session, ws, race, api>>

vars == <<jobVars, cacheVars, batch, chunked, stream, session, ws, race, api, clock>>

----------------------------------------------------------------------------
(* Bounds of the model *)

MaxJobs == 1            \* create_job calls in the registry specification
MaxRunJobs == 2         \* create_job calls in the runner specification
MaxTime == 2            \* last tick of the clock
TicksPerHour == 1       \* clock resolution
MaxListDeleteId == 2    \* ids delete_job is tried on in the listing specification
MaxCacheSize == 1       \* CacheManager.max_cache_size, in entry units
MaxCacheCalls == 3      \* CacheManager calls in the cache specification
MaxCalls == 3           \* transcribe_file calls in the service specification
MaxCacheTime == 1       \* last tick of the clock in the cache and service specifications
MaxBatchFiles == 2      \* files of one batch, each handled by its own worker thread
MaxBatches == 2         \* batch_transcribe calls in the batch specification
MaxMgrSessions == 2     \* create_session calls in the session manager specification
MaxMgrCalls == 2        \* other SessionManager calls in that specification
MaxMgrTime == 1         \* last tick of the clock in that specification
MaxApiJobs == 2         \* transcribe_file calls on the shared TranscriptionAPI
MaxDuration == 4        \* longest source of chunked processing, in seconds
MaxChunkDuration == 2   \* longest chunk_duration setting, in seconds
MaxPushes == 3          \* audio messages the client of the live stream sends
MaxSessionCalls == 4    \* RecordingSession and SessionManager calls in the session specification
MaxWsMessages == 4      \* messages the WebSocket handler receives on one connection
MaxPings == 2           \* keep-alive pings sent during one finalization
MaxRaceSets == 2        \* set_transcription_cache calls of the writing thread
MaxRaceGets == 2        \* get_transcription_cache calls of the reading thread
EntryBlocks == 2        \* buffered reads or writes one pickled entry takes

(* Program constants *)

ExpirationHours == 1    \* JobManager._expiration_hours
DefaultLimit == 50      \* list_jobs(limit=50)
DefaultChunkDuration == 50  \* StreamingTranscriber chunk_duration = 5.0 s, in tenths
OverlapDuration == 10       \* StreamingTranscriber.overlap_duration = 1.0 s, in tenths
MinFinalDuration == 5       \* finalize flushes more than 0.5 s, in tenths
SampleRate == 16000         \* RecordingSession.sample_rate
Channels == 1               \* RecordingSession.channels
BytesPerSample == 2         \* RecordingSession.bytes_per_sample

MaxListJobs == DefaultLimit + 2

----------------------------------------------------------------------------
(* JobStatus and the Job dataclass (job_manager.py:14-37) *)

QUEUED == "queued"
PROCESSING == "processing"
COMPLETED == "completed"
FAILED == "failed"
JobStatus == {QUEUED, PROCESSING, COMPLETED, FAILED}
Terminal == {COMPLETED, FAILED}

NoTime == -1            \* started_at / completed_at is None
NoError == "none"       \* error is None
NoResult == "none"      \* result is None
NoHolder == "free"      \* the lock is free
NoJob == 0              \* no job id (ids start at 1)

Job(now) ==
    [status |-> QUEUED, progress |-> 0, created_at |-> now,
     started_at |-> NoTime, completed_at |-> NoTime,
     error |-> NoError, result |-> NoResult]

----------------------------------------------------------------------------
(* Pure parts of the JobManager methods *)

\* async with self._lock: the lock is free again when the block is left.
\* No block of JobManager awaits while holding the lock.
ReleaseLock(task) == NoHolder

\* run_transcription_job awaits transcribe_func() (job_manager.py:203) outside
\* every `async with self._lock` block: who holds the lock meanwhile
runner_lock_at_await_Held == "runner"

runner_lock_at_await == NoHolder

\* jobs[:limit]
Slice_OneShort(s, limit) ==
    SubSeq(s, 1, IF limit - 1 < Len(s) THEN limit - 1 ELSE Len(s))

\* job_manager.py:128-129
started_at_after_NoGuard(job, status, now) ==
    IF status = PROCESSING THEN now ELSE job.started_at

started_at_after(job, status, now) ==
    IF status = PROCESSING /\ job.started_at = NoTime THEN now ELSE job.started_at

\* job_manager.py:131-132
completed_at_after(job, status, now) ==
    IF status \in Terminal THEN now ELSE job.completed_at

\* job_manager.py:125-138, the body of update_job_status on a job that exists
updated_job(job, status, progress, error, result, now) ==
    [job EXCEPT !.status = status,
                !.progress = progress,
                !.started_at = started_at_after(job, status, now),
                !.completed_at = completed_at_after(job, status, now),
                !.error = IF error \notin {NoError, ""} THEN error ELSE @,
                !.result = IF result # NoResult THEN result ELSE @]

\* job_manager.py:162-172: the ids the sweep deletes
expired_ids_Inclusive(js, now) ==
    {id \in DOMAIN js : js[id].created_at <= now - ExpirationHours * TicksPerHour}

expired_ids(js, now) ==
    {id \in DOMAIN js : js[id].created_at < now - ExpirationHours * TicksPerHour}

_cleanup_expired_jobs(js, now) ==
    [id \in DOMAIN js \ expired_ids(js, now) |-> js[id]]

\* sorted(self._jobs.values(), key=created_at, reverse=True): a stable sort, so
\* jobs created in the same tick stay in insertion order (ascending id).
RECURSIVE SortedIds(_, _)
SortedIds(js, ids) ==
    IF ids = {} THEN <<>>
    ELSE LET first == CHOOSE i \in ids :
                        \A k \in ids :
                            \/ js[i].created_at > js[k].created_at
                            \/ js[i].created_at = js[k].created_at /\ i <= k
         IN  <<first>> \o SortedIds(js, ids \ {first})

Slice(s, limit) ==
    LET n == IF limit >= 0
             THEN (IF limit < Len(s) THEN limit ELSE Len(s))
             ELSE (IF Len(s) + limit > 0 THEN Len(s) + limit ELSE 0)
    IN  SubSeq(s, 1, n)

----------------------------------------------------------------------------
(* JobManager operations. Each runs without suspension: asyncio.Lock is  *)
(* acquired without yielding when it is free, and no holder awaits.      *)

InitJobs ==
    /\ jobs = <<>>
    /\ lock = NoHolder
    /\ clock = 0
    /\ nextId = 1
    /\ wpc = <<>>
    /\ ret = [op |-> "none", job |-> NoJob]
    /\ nCreated = 0
    /\ nDeleted = 0

\* job_manager.py:60-92
create_job(cap) ==
    /\ lock = NoHolder
    /\ nextId <= cap
    /\ LET job_id == nextId
           inserted == [id \in DOMAIN jobs \cup {job_id} |->
                           IF id = job_id THEN Job(clock) ELSE jobs[id]]
       IN  /\ jobs' = _cleanup_expired_jobs(inserted, clock)
           /\ wpc' = [id \in DOMAIN wpc \cup {job_id} |->
                           IF id = job_id THEN "new" ELSE wpc[id]]
           /\ ret' = [op |-> "create", job |-> job_id]
    /\ lock' = ReleaseLock("caller")
    /\ nextId' = nextId + 1
    /\ nCreated' = nCreated + 1
    /\ UNCHANGED <<clock, nDeleted, notJobs>>

\* job_manager.py:94-97
get_job(job_id) ==
    /\ lock = NoHolder
    /\ ret' = [op |-> "get", job |-> job_id, found |-> job_id \in DOMAIN jobs]
    /\ lock' = ReleaseLock("caller")
    /\ UNCHANGED <<jobs, clock, nextId, wpc, nCreated, nDeleted, notJobs>>

\* job_manager.py:99-140
update_job_status(job_id, status, progress, error, result) ==
    /\ lock = NoHolder
    /\ IF job_id \in DOMAIN jobs
       THEN /\ jobs' = [jobs EXCEPT ![job_id] =
                           updated_job(@, status, progress, error, result, clock)]
            /\ ret' = [op |-> "update", job |-> job_id, found |-> TRUE]
       ELSE /\ jobs' = jobs
            /\ ret' = [op |-> "update", job |-> job_id, found |-> FALSE]
    /\ lock' = ReleaseLock("caller")
    /\ UNCHANGED <<clock, nextId, wpc, nCreated, nDeleted, notJobs>>

\* job_manager.py:142-148
delete_job_ReportsTrue(job_id) ==
    /\ lock = NoHolder
    /\ jobs' = [id \in DOMAIN jobs \ {job_id} |-> jobs[id]]
    /\ ret' = [op |-> "delete", job |-> job_id, found |-> TRUE]
    /\ nDeleted' = nDeleted + 1
    /\ lock' = ReleaseLock("caller")
    /\ UNCHANGED <<clock, nextId, wpc, nCreated, notJobs>>

delete_job(job_id) ==
    /\ lock = NoHolder
    /\ IF job_id \in DOMAIN jobs
       THEN /\ jobs' = [id \in DOMAIN jobs \ {job_id} |-> jobs[id]]
            /\ ret' = [op |-> "delete", job |-> job_id, found |-> TRUE]
            /\ nDeleted' = nDeleted + 1
       ELSE /\ jobs' = jobs
            /\ ret' = [op |-> "delete", job |-> job_id, found |-> FALSE]
            /\ nDeleted' = nDeleted
    /\ lock' = ReleaseLock("caller")
    /\ UNCHANGED <<clock, nextId, wpc, nCreated, notJobs>>

\* job_manager.py:150-158
list_jobs(limit) ==
    /\ lock = NoHolder
    /\ ret' = [op |-> "list", job |-> NoJob, limit |-> limit,
               list |-> Slice(SortedIds(jobs, DOMAIN jobs), limit)]
    /\ lock' = ReleaseLock("caller")
    /\ UNCHANGED <<jobs, clock, nextId, wpc, nCreated, nDeleted, notJobs>>

----------------------------------------------------------------------------
(* run_transcription_job (job_manager.py:175-233): one background task per *)
(* job. It runs from its start to `await transcribe_func()` without        *)
(* suspension, and from the end of the transcription to its own end.       *)

\* job_manager.py:190-203: get_job, mark PROCESSING at progress 0.1, start
\* the transcription
run_start(job_id) ==
    /\ lock = NoHolder
    /\ job_id \in DOMAIN wpc
    /\ wpc[job_id] = "new"
    /\ IF job_id \in DOMAIN jobs
       THEN /\ jobs' = [jobs EXCEPT ![job_id] =
                           updated_job(@, PROCESSING, 1, NoError, NoResult, clock)]
            /\ wpc' = [wpc EXCEPT ![job_id] = "transcribing"]
            /\ ret' = [op |-> "update", job |-> job_id, found |-> TRUE]
            /\ lock' = runner_lock_at_await
       ELSE /\ jobs' = jobs
            /\ wpc' = [wpc EXCEPT ![job_id] = "done"]
            /\ ret' = [op |-> "get", job |-> job_id, found |-> FALSE]
            /\ lock' = ReleaseLock("runner")
    /\ UNCHANGED <<clock, nextId, nCreated, nDeleted, notJobs>>

\* the error text of a failed transcription: the "error" of the result or
\* str(e) of the exception, which is empty for an exception raised without
\* arguments
RunMessages == {"Unknown error", ""}

\* job_manager.py:203-233: the transcription returned a result with
\* success=True (outcome "ok"), a result with success=False ("fail"), or
\* raised ("raise"); the job is marked COMPLETED or FAILED. message is
\* result.get("error", "Unknown error") or str(e).
run_finish_Reinserts(job_id, outcome, message) ==
    /\ lock = NoHolder
    /\ job_id \in DOMAIN wpc
    /\ wpc[job_id] = "transcribing"
    /\ LET status == IF outcome = "ok" THEN COMPLETED ELSE FAILED
           progress == IF outcome = "ok" THEN 10 ELSE 0
           error == IF outcome = "ok" THEN NoError ELSE message
           result == IF outcome = "ok" THEN "result" ELSE NoResult
           old == IF job_id \in DOMAIN jobs THEN jobs[job_id] ELSE Job(clock)
       IN  /\ jobs' = [id \in DOMAIN jobs \cup {job_id} |->
                           IF id = job_id
                           THEN updated_job(old, status, progress, error, result, clock)
                           ELSE jobs[id]]
           /\ ret' = [op |-> "update", job |-> job_id, found |-> TRUE]
    /\ wpc' = [wpc EXCEPT ![job_id] = "done"]
    /\ lock' = ReleaseLock("runner")
    /\ UNCHANGED <<clock, nextId, nCreated, nDeleted, notJobs>>

run_finish(job_id, outcome, message) ==
    /\ lock = NoHolder
    /\ job_id \in DOMAIN wpc
    /\ wpc[job_id] = "transcribing"
    /\ LET status == IF outcome = "ok" THEN COMPLETED ELSE FAILED
           progress == IF outcome = "ok" THEN 10 ELSE 0   \* in tenths
           error == IF outcome = "ok" THEN NoError ELSE message
           result == IF outcome = "ok" THEN "result" ELSE NoResult
       IN  IF job_id \in DOMAIN jobs
           THEN /\ jobs' = [jobs EXCEPT ![job_id] =
                               updated_job(@, status, progress, error, result, clock)]
                /\ ret' = [op |-> "update", job |-> job_id, found |-> TRUE]
           ELSE /\ jobs' = jobs
                /\ ret' = [op |-> "update", job |-> job_id, found |-> FALSE]
    /\ wpc' = [wpc EXCEPT ![job_id] = "done"]
    /\ lock' = ReleaseLock("runner")
    /\ UNCHANGED <<clock, nextId, nCreated, nDeleted, notJobs>>

\* time passes
Tick ==
    /\ clock < MaxTime
    /\ clock' = clock + 1
    /\ UNCHANGED notClock

----------------------------------------------------------------------------
(* CacheManager (performance_optimizations.py:39-236). Sizes are counted   *)
(* in units of one small pickled entry; MaxCacheSize is max_cache_size.    *)

InputFiles == {"a.wav", "b.wav"}
MissingFile == "gone.wav"       \* a path with no file: os.stat raises

NoStat == [size |-> 0, mtime |-> NoTime]

Stat(fs, f) == IF f \in DOMAIN fs THEN fs[f] ELSE NoStat

\* str() of st_mtime, a float
FloatStr(t) == ToString(t) \o ".0"

\* hashlib.sha256(...).hexdigest()[:16] and hashlib.md5(...).hexdigest()[:8]:
\* the digests are taken to be free of collisions
sha256_16(content) == "sha256(" \o content \o ")"
md5_8(content) == "md5(" \o content \o ")"

\* performance_optimizations.py:61-64
_generate_cache_key(content, prefix) == prefix \o "_" \o sha256_16(content)

\* performance_optimizations.py:66-68
_get_cache_path(cache_type, cache_key) == [dir |-> cache_type, key |-> cache_key]

\* performance_optimizations.py:112, the f-string of get_transcription_cache
get_cache_content(f, st, model, language, settings_hash) ==
    f \o "_" \o ToString(st.size) \o "_" \o FloatStr(st.mtime) \o "_"
      \o model \o "_" \o language \o "_" \o settings_hash

\* performance_optimizations.py:135, the f-string of set_transcription_cache
set_cache_content_NoSettings(f, st, model, language, settings_hash) ==
    f \o "_" \o ToString(st.size) \o "_" \o FloatStr(st.mtime) \o "_"
      \o model \o "_" \o language

set_cache_content(f, st, model, language, settings_hash) ==
    f \o "_" \o ToString(st.size) \o "_" \o FloatStr(st.mtime) \o "_"
      \o model \o "_" \o language \o "_" \o settings_hash

\* performance_optimizations.py:153 and 177
audio_cache_content(f, st, processing_settings) ==
    f \o "_" \o ToString(st.size) \o "_" \o FloatStr(st.mtime) \o "_"
      \o processing_settings

\* pickle.dump(result, f): the bytes a result dictionary takes grow with its
\* text; pickle.dump(processed_path, f): a path string takes one unit
PickledSize(value) == value.word_count
PickledPathSize(processed_path) == 1

RECURSIVE SumSizes(_, _)
SumSizes(c, names) ==
    IF names = {} THEN 0
    ELSE LET n == CHOOSE x \in names : TRUE
         IN  c[n].size + SumSizes(c, names \ {n})

\* performance_optimizations.py:77-83: total_size over the three subdirectories
TotalSize(c) == SumSizes(c, DOMAIN c)

\* position of a subdirectory in the collection loop
\* (performance_optimizations.py:77)
SubdirIndex(dir) ==
    CASE dir = "transcriptions" -> 1
      [] dir = "audio_processing" -> 2
      [] OTHER -> 3

RECURSIVE Orderings(_)
Orderings(names) ==
    IF names = {} THEN {<<>>}
    ELSE UNION {{<<n>> \o rest : rest \in Orderings(names \ {n})} : n \in names}

\* performance_optimizations.py:77-88: cache_files after the stable sort by
\* st_mtime. Files with equal times stay in collection order: subdirectory
\* by subdirectory, within one subdirectory in the order glob yields them,
\* which is not determined.
SortedCacheFiles_NewestFirst(c) ==
    {o \in Orderings(DOMAIN c) :
        \A i, k \in 1..Len(o) : i < k => c[o[i]].mtime >= c[o[k]].mtime}

SortedCacheFiles(c) ==
    {o \in Orderings(DOMAIN c) :
        \A i, k \in 1..Len(o) :
            i < k => \/ c[o[i]].mtime < c[o[k]].mtime
                     \/ /\ c[o[i]].mtime = c[o[k]].mtime
                        /\ SubdirIndex(o[i].dir) <= SubdirIndex(o[k].dir)}

RECURSIVE PrefixSize(_, _, _)
PrefixSize(c, order, k) ==
    IF k = 0 THEN 0 ELSE c[order[k]].size + PrefixSize(c, order, k - 1)

\* performance_optimizations.py:90-101: the number of files the loop unlinks
RemovedCount(c, order, bytes_to_remove) ==
    IF \E k \in 0..Len(order) : PrefixSize(c, order, k) >= bytes_to_remove
    THEN CHOOSE k \in 0..Len(order) :
            /\ PrefixSize(c, order, k) >= bytes_to_remove
            /\ \A m \in 0..(k - 1) : PrefixSize(c, order, m) < bytes_to_remove
    ELSE Len(order)

\* performance_optimizations.py:70-104
_cleanup_cache(c, order) ==
    IF TotalSize(c) > MaxCacheSize
    THEN LET k == RemovedCount(c, order, TotalSize(c) - MaxCacheSize)
         IN  [n \in DOMAIN c \ {order[i] : i \in 1..k} |-> c[n]]
    ELSE c

\* open(cache_path, 'wb'); pickle.dump(value, f): the file is replaced whole
WriteEntry(c, path, value, size, now) ==
    [n \in DOMAIN c \cup {path} |->
        IF n = path THEN [value |-> value, size |-> size, mtime |-> now]
        ELSE c[n]]

\* bytes of the entries other than `path`, and of those among them that were
\* written before `now`
OtherBytes(c, path) == SumSizes(c, DOMAIN c \ {path})
OlderBytes(c, path, now) ==
    SumSizes(c, {n \in DOMAIN c \ {path} : c[n].mtime < now})

InitCache ==
    /\ files = [f \in InputFiles |-> [size |-> 1, mtime |-> 0]]
    /\ cache = <<>>
    /\ cache_hits = 0
    /\ cache_misses = 0
    /\ engine_calls = 0
    /\ ncalls = 0
    /\ cret = [op |-> "none"]

\* performance_optimizations.py:106-127
get_transcription_cache(cap, f, model, language, settings_hash) ==
    /\ ncalls < cap
    /\ LET st == Stat(files, f)
           path == _get_cache_path("transcriptions",
                       _generate_cache_key(
                           get_cache_content(f, st, model, language, settings_hash),
                           "transcription"))
           hit == f \in DOMAIN files /\ path \in DOMAIN cache
       IN  /\ cache_hits' = IF hit THEN cache_hits + 1 ELSE cache_hits
           /\ cache_misses' = IF hit THEN cache_misses ELSE cache_misses + 1
           /\ cret' = [op |-> "get", file |-> f, stat |-> st, model |-> model,
                       language |-> language, settings_hash |-> settings_hash,
                       hit |-> hit,
                       value |-> IF hit THEN cache[path].value ELSE [none |-> TRUE],
                       follows_set |-> /\ cret.op = "set"
                                       /\ cret.file = f
                                       /\ cret.stat = st
                                       /\ cret.model = model
                                       /\ cret.language = language
                                       /\ cret.settings_hash = settings_hash]
    /\ ncalls' = ncalls + 1
    /\ UNCHANGED <<files, cache, engine_calls, clock, notCache>>

\* performance_optimizations.py:129-147
set_transcription_cache(cap, f, model, language, settings_hash, result) ==
    /\ ncalls < cap
    /\ LET st == Stat(files, f)
           path == _get_cache_path("transcriptions",
                       _generate_cache_key(
                           set_cache_content(f, st, model, language, settings_hash),
                           "transcription"))
           written == WriteEntry(cache, path, result, PickledSize(result), clock)
       IN  /\ IF f \in DOMAIN files
              THEN \E order \in SortedCacheFiles(written) :
                        cache' = _cleanup_cache(written, order)
              ELSE cache' = cache
           /\ cret' = [op |-> "set", file |-> f, stat |-> st, model |-> model,
                       language |-> language, settings_hash |-> settings_hash,
                       result |-> result, size |-> PickledSize(result),
                       other_bytes |-> OtherBytes(cache, path),
                       older_bytes |-> OlderBytes(cache, path, clock)]
    /\ ncalls' = ncalls + 1
    /\ UNCHANGED <<files, cache_hits, cache_misses, engine_calls, clock, notCache>>

\* performance_optimizations.py:157-164: the lookup is a hit when the entry
\* exists, unpickles, and the path it holds still exists
audio_hit_NoExistsCheck(entry_exists, read_ok, path_exists) ==
    entry_exists /\ read_ok

audio_hit(entry_exists, read_ok, path_exists) ==
    entry_exists /\ read_ok /\ path_exists

\* performance_optimizations.py:149-171. read_ok: whether pickle.load of the
\* entry succeeds if it is attempted. Every exception ends in the except
\* branch, so the call never raises.
get_audio_processing_cache(cap, f, processing_settings, read_ok) ==
    /\ ncalls < cap
    /\ LET st == Stat(files, f)
           path == _get_cache_path("audio_processing",
                       _generate_cache_key(
                           audio_cache_content(f, st, processing_settings), "audio"))
           entry == f \in DOMAIN files /\ path \in DOMAIN cache
           stale == entry /\ cache[path].value \notin DOMAIN files
           hit == audio_hit(entry, read_ok, ~stale)
       IN  /\ cache_hits' = IF hit THEN cache_hits + 1 ELSE cache_hits
           /\ cache_misses' = IF hit THEN cache_misses ELSE cache_misses + 1
           /\ cret' = [op |-> "get_audio", file |-> f, stat |-> st, hit |-> hit,
                       entry |-> entry, unreadable |-> entry /\ ~read_ok,
                       stale |-> stale, raised |-> FALSE,
                       returned |-> IF hit THEN cache[path].value ELSE "None"]
    /\ ncalls' = ncalls + 1
    /\ UNCHANGED <<files, cache, engine_calls, clock, notCache>>

\* performance_optimizations.py:173-185
set_audio_processing_cache(cap, f, processing_settings, processed_path) ==
    /\ ncalls < cap
    /\ LET st == Stat(files, f)
           path == _get_cache_path("audio_processing",
                       _generate_cache_key(
                           audio_cache_content(f, st, processing_settings), "audio"))
       IN  /\ cache' = IF f \in DOMAIN files
                       THEN WriteEntry(cache, path, processed_path,
                                       PickledPathSize(processed_path), clock)
                       ELSE cache
           /\ cret' = [op |-> "set_audio", file |-> f, stat |-> st]
    /\ ncalls' = ncalls + 1
    /\ UNCHANGED <<files, cache_hits, cache_misses, engine_calls, clock, notCache>>

\* the input file is rewritten: its modification time becomes the current time
ModifyFile(f) ==
    /\ f \in DOMAIN files
    /\ files[f].mtime # clock
    /\ files' = [files EXCEPT ![f].mtime = clock]
    /\ UNCHANGED <<cache, cache_hits, cache_misses, engine_calls, ncalls, cret,
                   clock, notCache>>

----------------------------------------------------------------------------
(* TranscriptionService.transcribe_file (transcription_service.py:67-221)  *)
(* with caching enabled, on files short enough for standard processing.    *)
(* processing_time is 1 for a request the engine served and 0 for a        *)
(* request served from the cache.                                          *)

\* config/settings.py:20-62 and transcription_api.py:62-67; None is "None"
DefaultSettings ==
    [default_model |-> "base", default_language |-> "None",
     chunk_duration |-> "30", force_chunking |-> FALSE,
     enable_speaker_detection |-> FALSE, expected_speakers |-> "None",
     enable_audio_preprocessing |-> FALSE, noise_reduction |-> FALSE,
     volume_normalization |-> FALSE, high_pass_filter |-> FALSE,
     low_pass_filter |-> FALSE, enhance_speech |-> FALSE,
     target_sample_rate |-> "None", initial_prompt |-> "None"]

\* the settings of a request: the defaults, or the defaults with one changed
SettingsSpace ==
    {DefaultSettings,
     [DefaultSettings EXCEPT !.default_model = "small"],
     [DefaultSettings EXCEPT !.default_language = "en"],
     [DefaultSettings EXCEPT !.initial_prompt = "Kubernetes, kubectl"]}

\* transcription_service.py:653-675: str(sorted(relevant_settings.items()))
_generate_settings_hash(s) ==
    md5_8(ToString(<< <<"chunk_duration", s.chunk_duration>>,
                      <<"enhance_speech", s.enhance_speech>>,
                      <<"expected_speakers", s.expected_speakers>>,
                      <<"force_chunking", s.force_chunking>>,
                      <<"high_pass", s.high_pass_filter>>,
                      <<"language", s.default_language>>,
                      <<"low_pass", s.low_pass_filter>>,
                      <<"model", s.default_model>>,
                      <<"noise_reduction", s.noise_reduction>>,
                      <<"preprocess", s.enable_audio_preprocessing>>,
                      <<"speakers", s.enable_speaker_detection>>,
                      <<"target_sr", s.target_sample_rate>>,
                      <<"volume_norm", s.volume_normalization>> >>))

\* transcription_service.py:404-417 and transcription_engine.py:102-113: the
\* text Whisper produces is a function of the audio (the file as last
\* written), the model, the language and the initial prompt
EngineText(f, st, s) ==
    <<f, ToString(st.mtime), s.default_model, s.default_language, s.initial_prompt>>

\* transcription_service.py:436-439:
\* Path(input_file).with_suffix('.' + output_format)
_generate_output_filename(f, output_format) ==
    (CASE f = "a.wav" -> "a."
       [] f = "b.wav" -> "b."
       [] OTHER -> "gone.") \o output_format

\* the output_file and output_format arguments of transcribe_file: the
\* defaults (no output_file, 'txt'), and a requested path with 'json'
NoOutputFile == ""
OutputArgs ==
    {[output_file |-> NoOutputFile, output_format |-> "txt"],
     [output_file |-> "out.json", output_format |-> "json"]}
DefaultOutput == [output_file |-> NoOutputFile, output_format |-> "txt"]

\* transcription_service.py:156-158: the path the output of a call goes to
output_path(f, out) ==
    IF out.output_file = NoOutputFile
    THEN _generate_output_filename(f, out.output_format)
    ELSE out.output_file

\* transcription_service.py:166-175
final_result(f, st, s, output_file) ==
    [success |-> TRUE, output_file |-> output_file,
     processing_time |-> 1, text |-> EngineText(f, st, s), word_count |-> 1,
     from_cache |-> FALSE]

\* transcription_service.py:98-117: the cache key of the lookup, and
\* transcription_service.py:188-194: the cache key of the store, which
\* CacheManager computes from its own f-string
lookup_path(f, st, s) ==
    _get_cache_path("transcriptions",
        _generate_cache_key(
            get_cache_content(f, st, s.default_model, s.default_language,
                              _generate_settings_hash(s)),
            "transcription"))

store_path(f, st, s) ==
    _get_cache_path("transcriptions",
        _generate_cache_key(
            set_cache_content(f, st, s.default_model, s.default_language,
                              _generate_settings_hash(s)),
            "transcription"))

\* transcription_service.py:67-221. engine_ok: whether the transcription
\* engine succeeds if it is invoked. written_output is the file the output
\* writer wrote in this call (transcription_service.py:160-162), which only
\* a call served by the engine reaches.
transcribe_file(cap, f, s, engine_ok, out) ==
    /\ ncalls < cap
    /\ LET st == Stat(files, f)
           hit == f \in DOMAIN files /\ lookup_path(f, st, s) \in DOMAIN cache
           valid == f \in DOMAIN files
           result == final_result(f, st, s, output_path(f, out))
           written == WriteEntry(cache, store_path(f, st, s), result,
                                 PickledSize(result), clock)
           call == [op |-> "transcribe", file |-> f, stat |-> st, settings |-> s,
                    out |-> out, written_output |-> NoOutputFile,
                    hit |-> hit, engine |-> FALSE, wrote |-> FALSE,
                    result |-> [success |-> FALSE], size |-> 0,
                    other_bytes |-> 0, older_bytes |-> 0,
                    follows_same |-> /\ cret.op = "transcribe"
                                     /\ cret.file = f
                                     /\ cret.settings = s
                                     /\ cret.stat = st
                                     /\ ~cret.hit]
       IN  /\ cache_hits' = IF hit THEN cache_hits + 1 ELSE cache_hits
           /\ cache_misses' = IF hit THEN cache_misses ELSE cache_misses + 1
           /\ IF hit
              THEN /\ cret' = [call EXCEPT
                                 !.result = [cache[lookup_path(f, st, s)].value
                                                EXCEPT !.processing_time = 0,
                                                       !.from_cache = TRUE]]
                   /\ UNCHANGED <<cache, engine_calls>>
              ELSE IF ~valid
              THEN /\ cret' = call
                   /\ UNCHANGED <<cache, engine_calls>>
              ELSE IF ~engine_ok
              THEN /\ cret' = [call EXCEPT !.engine = TRUE]
                   /\ engine_calls' = engine_calls + 1
                   /\ UNCHANGED cache
              ELSE /\ cret' = [call EXCEPT
                                 !.engine = TRUE,
                                 !.wrote = TRUE,
                                 !.written_output = output_path(f, out),
                                 !.result = result,
                                 !.size = PickledSize(result),
                                 !.other_bytes = OtherBytes(cache, store_path(f, st, s)),
                                 !.older_bytes = OlderBytes(cache, store_path(f, st, s), clock)]
                   /\ engine_calls' = engine_calls + 1
                   /\ \E order \in SortedCacheFiles(written) :
                        cache' = _cleanup_cache(written, order)
    /\ ncalls' = ncalls + 1
    /\ UNCHANGED <<files, clock, notCache>>

----------------------------------------------------------------------------
(* TranscriptionService.batch_transcribe with parallel workers             *)
(* (transcription_service.py:271-295): ParallelProcessor.process_batch     *)
(* submits one transcribe_file task per file to a ThreadPoolExecutor; the  *)
(* threads share the service's CacheManager, which has no lock.            *)

\* the file of the i-th task of a batch
BatchFile(i) == IF i % 2 = 1 THEN "a.wav" ELSE "b.wav"

BatchTasks == 1..MaxBatchFiles

InitBatch ==
    batch = [pc |-> [w \in BatchTasks |-> "idle"],
             hit |-> [w \in BatchTasks |-> FALSE],
             loaded |-> [w \in BatchTasks |-> 0],
             rounds |-> 0,
             gets |-> 0]

\* performance_optimizations.py:349-369: executor.submit for every item
process_batch ==
    /\ batch.rounds < MaxBatches
    /\ \A w \in BatchTasks : batch.pc[w] \in {"idle", "done"}
    /\ batch' = [batch EXCEPT !.pc = [w \in BatchTasks |-> "submitted"],
                              !.rounds = @ + 1]
    /\ UNCHANGED <<files, cache, cache_hits, cache_misses, engine_calls, notBatch>>

\* performance_optimizations.py:109-122: a worker's get_transcription_cache
\* up to the read of the counter in `self.cache_hits += 1` or
\* `self.cache_misses += 1`. The statement is a read, an addition and a
\* write of an attribute that other threads write too.
get_cache_load(w) ==
    /\ batch.pc[w] = "submitted"
    /\ LET f == BatchFile(w)
           hit == /\ f \in DOMAIN files
                  /\ lookup_path(f, Stat(files, f), DefaultSettings) \in DOMAIN cache
       IN  batch' = [batch EXCEPT !.pc[w] = "loaded",
                                  !.hit[w] = hit,
                                  !.loaded[w] = IF hit THEN cache_hits
                                                ELSE cache_misses]
    /\ UNCHANGED <<files, cache, cache_hits, cache_misses, engine_calls, notBatch>>

\* performance_optimizations.py:119-127: the write of the counter; the get
\* returns
get_cache_store(w) ==
    /\ batch.pc[w] = "loaded"
    /\ cache_hits' = IF batch.hit[w] THEN batch.loaded[w] + 1 ELSE cache_hits
    /\ cache_misses' = IF batch.hit[w] THEN cache_misses ELSE batch.loaded[w] + 1
    /\ batch' = [batch EXCEPT !.pc[w] = "got", !.gets = @ + 1]
    /\ UNCHANGED <<files, cache, engine_calls, notBatch>>

\* transcription_service.py:110-221: the rest of the worker's
\* transcribe_file: return the cached result, or transcribe and store
transcribe_rest(w, engine_ok) ==
    /\ batch.pc[w] = "got"
    /\ LET f == BatchFile(w)
           st == Stat(files, f)
           result == final_result(f, st, DefaultSettings,
                                  output_path(f, DefaultOutput))
           written == WriteEntry(cache, store_path(f, st, DefaultSettings), result,
                                 PickledSize(result), clock)
       IN  IF batch.hit[w] \/ f \notin DOMAIN files
           THEN UNCHANGED <<cache, engine_calls>>
           ELSE /\ engine_calls' = engine_calls + 1
                /\ IF engine_ok
                   THEN \E order \in SortedCacheFiles(written) :
                            cache' = _cleanup_cache(written, order)
                   ELSE cache' = cache
    /\ batch' = [batch EXCEPT !.pc[w] = "done"]
    /\ UNCHANGED <<files, cache_hits, cache_misses, notBatch>>

\* performance_optimizations.py:187-203, between two batches
clear_cache(cache_type) ==
    /\ \A w \in BatchTasks : batch.pc[w] = "done"
    /\ cache # <<>>
    /\ cache' = [n \in {p \in DOMAIN cache :
                            cache_type # "None" /\ p.dir # cache_type} |-> cache[n]]
    /\ UNCHANGED <<files, cache_hits, cache_misses, engine_calls, batch, notBatch>>

----------------------------------------------------------------------------
(* ChunkedProcessor (poc/chunked_processor.py). Durations are whole        *)
(* seconds.                                                                *)

\* math.ceil(duration / self.chunk_duration)
Ceil(a, b) == (a + b - 1) \div b

\* transcription_service.py:371-382 and chunked_processor.py:70-91
_should_use_chunking(force_chunking, duration) ==
    force_chunking \/ duration > 300

\* chunked_processor.py:127-129 and 170-177: the i-th ChunkInfo
ChunkInfo_NoMin(i, duration, chunk_duration) ==
    [index |-> i,
     start_time |-> i * chunk_duration,
     end_time |-> (i + 1) * chunk_duration,
     duration |-> chunk_duration]

ChunkInfo(i, duration, chunk_duration) ==
    LET start_time == i * chunk_duration
        end_time == IF (i + 1) * chunk_duration < duration
                    THEN (i + 1) * chunk_duration ELSE duration
    IN  [index |-> i, start_time |-> start_time, end_time |-> end_time,
         duration |-> end_time - start_time]

\* chunked_processor.py:120-184: the list create_audio_chunks returns
ChunkList(duration, chunk_duration) ==
    [k \in 1..Ceil(duration, chunk_duration) |->
        ChunkInfo(k - 1, duration, chunk_duration)]

Languages == {"en", "fr"}

\* what Whisper may report for a chunk of the given length: no segment, one
\* segment over the whole chunk, or two segments that split it. Segment times
\* are relative to the chunk, ordered, and inside the chunk.
SegmentLists(len) ==
    {<<>>, <<[start |-> 0, end |-> len]>>}
        \cup (IF len >= 2
              THEN {<<[start |-> 0, end |-> 1], [start |-> 1, end |-> len]>>}
              ELSE {})

\* transcription_engine.py:131-150: the results transcribe_audio may return
\* for chunk i
EngineResults(chunk) ==
    {[success |-> FALSE, text |-> "None", segments |-> <<>>, language |-> "None"]}
        \cup {[success |-> TRUE,
               text |-> IF segs = <<>> THEN "" ELSE "t" \o ToString(chunk.index),
               segments |-> segs, language |-> lang] :
                    segs \in SegmentLists(chunk.duration), lang \in Languages}

\* chunked_processor.py:218-233: a successful result gets its segment times
\* shifted by the chunk's start and the chunk's metadata attached
shifted_NoShift(segments, offset) == segments

shifted(segments, offset) ==
    [k \in 1..Len(segments) |->
        [start |-> segments[k].start + offset, end |-> segments[k].end + offset]]

chunk_result(chunk, result) ==
    IF result.success
    THEN [success |-> TRUE, text |-> result.text,
          segments |-> shifted(result.segments, chunk.start_time),
          language |-> result.language, chunk_index |-> chunk.index]
    ELSE [success |-> FALSE, text |-> result.text, segments |-> result.segments,
          language |-> result.language, chunk_index |-> chunk.index]

\* [r for r in chunk_results if r['success']]
Successful_All(results) == results

RECURSIVE Successful(_)
Successful(results) ==
    IF results = <<>> THEN <<>>
    ELSE IF Head(results).success
         THEN <<Head(results)>> \o Successful(Tail(results))
         ELSE Successful(Tail(results))

\* chunked_processor.py:266: ' '.join(r['text'].strip() for r in ... if r['text'])
RECURSIVE JoinTexts(_)
JoinTexts(results) ==
    IF results = <<>> THEN ""
    ELSE LET rest == JoinTexts(Tail(results))
             text == Head(results).text
         IN  IF text = "" THEN rest
             ELSE IF rest = "" THEN text
             ELSE text \o " " \o rest

\* chunked_processor.py:269-272
RECURSIVE AllSegments(_)
AllSegments(results) ==
    IF results = <<>> THEN <<>>
    ELSE Head(results).segments \o AllSegments(Tail(results))

\* languages.count(lang)
LanguageCount(results, lang) ==
    Cardinality({k \in 1..Len(results) : results[k].language = lang})

\* chunked_processor.py:280-281: max(set(languages), key=languages.count)
\* returns the first language of highest count in the iteration order of the
\* set, which for strings depends on the process's hash seed: any of the
\* most frequent languages can come out.
MostCommonLanguages(results) ==
    {lang \in {results[k].language : k \in 1..Len(results)} :
        \A k \in 1..Len(results) :
            LanguageCount(results, lang) >= LanguageCount(results, results[k].language)}

\* chunked_processor.py:246-295, with the language max() picked
merged_result(chunk_results, language) ==
    LET successful_results == Successful(chunk_results)
    IN  IF chunk_results = <<>>
        THEN [success |-> FALSE, error |-> "No chunks to merge", text |-> ""]
        ELSE IF successful_results = <<>>
        THEN [success |-> FALSE, error |-> "No successful chunk transcriptions",
              text |-> ""]
        ELSE [success |-> TRUE,
              text |-> JoinTexts(successful_results),
              segments |-> AllSegments(successful_results),
              language |-> language,
              segment_count |-> Len(AllSegments(successful_results)),
              chunk_count |-> Len(chunk_results),
              successful_chunks |-> Len(successful_results),
              failed_chunks |-> Len(chunk_results) - Len(successful_results)]

\* ChunkedProcessor.cleanup (chunked_processor.py:60-68): every file of
\* temp_files that exists is removed, and the list is cleared
chunked_cleanup_ListOnly(c) == [c EXCEPT !.temp_files = {}]

chunked_cleanup(c) ==
    [c EXCEPT !.disk = @ \ c.temp_files, !.temp_files = {}]

\* temp_files is the list of the processor, disk the chunk files that exist,
\* created the chunk files the call has made
InitChunked ==
    chunked = [pc |-> "idle", duration |-> 0, chunk_duration |-> 1,
               chunks |-> <<>>, temp_files |-> {}, disk |-> {},
               created |-> {}, results |-> <<>>,
               final |-> [success |-> FALSE, error |-> "none", text |-> ""]]

\* chunked_processor.py:311-320 and 109-184: process_large_file up to the
\* call of transcribe_chunks. ffmpeg_ok: whether every extraction succeeds;
\* a failed one, of chunk number failed, raises out of create_audio_chunks
\* when the temp files of the chunks up to it have been made and listed,
\* and process_large_file answers with a failure after cleanup() has
\* removed the files (chunked_processor.py:336-346).
create_audio_chunks(duration, chunk_duration, force_chunking, ffmpeg_ok) ==
    /\ chunked.pc = "idle"
    /\ _should_use_chunking(force_chunking, duration)
    /\ LET chunks == ChunkList(duration, chunk_duration)
       IN  IF ffmpeg_ok \/ chunks = <<>>
           THEN chunked' = [chunked EXCEPT
                              !.pc = "transcribing",
                              !.duration = duration,
                              !.chunk_duration = chunk_duration,
                              !.chunks = chunks,
                              !.temp_files = {chunks[k].index : k \in 1..Len(chunks)},
                              !.disk = {chunks[k].index : k \in 1..Len(chunks)},
                              !.created = {chunks[k].index : k \in 1..Len(chunks)}]
           ELSE \E failed \in 1..Len(chunks) :
                  LET made == {chunks[k].index : k \in 1..failed}
                  IN  chunked' = chunked_cleanup(
                          [chunked EXCEPT
                              !.pc = "done",
                              !.duration = duration,
                              !.chunk_duration = chunk_duration,
                              !.temp_files = made,
                              !.disk = made,
                              !.created = made,
                              !.final = [success |-> FALSE,
                                         error |-> "Chunked processing failed",
                                         text |-> ""]])
    /\ UNCHANGED notChunked

\* chunked_processor.py:206-242: one iteration of the loop of
\* transcribe_chunks: transcribe the next chunk, keep its result, remove its
\* file
transcribe_chunk(result) ==
    /\ chunked.pc = "transcribing"
    /\ Len(chunked.results) < Len(chunked.chunks)
    /\ LET chunk == chunked.chunks[Len(chunked.results) + 1]
       IN  /\ result \in EngineResults(chunk)
           /\ chunked' = [chunked EXCEPT
                            !.results = Append(@, chunk_result(chunk, result)),
                            !.disk = @ \ {chunk.index},
                            !.temp_files = @ \ {chunk.index}]
    /\ UNCHANGED notChunked

\* chunked_processor.py:244 and 323-346: transcribe_chunks returns, the
\* results are merged, and process_large_file returns the merged result (a
\* failed merge has no chunk_count, so that the report that follows raises
\* and the answer is the failure of the except branch)
merge_results ==
    /\ chunked.pc = "transcribing"
    /\ Len(chunked.results) = Len(chunked.chunks)
    /\ \E language \in MostCommonLanguages(Successful(chunked.results)) \cup
                        (IF Successful(chunked.results) = <<>> THEN {"unknown"} ELSE {}) :
            LET merged == merged_result(chunked.results, language)
            IN  chunked' = chunked_cleanup(
                               [chunked EXCEPT
                                  !.pc = "done",
                                  !.final = IF merged.success THEN merged
                                            ELSE [success |-> FALSE,
                                                  error |-> "Chunked processing failed",
                                                  text |-> ""]])
    /\ UNCHANGED notChunked

----------------------------------------------------------------------------
(* Live streaming (web/services/streaming_transcriber.py and               *)
(* web/routes/websocket.py). Audio is counted in tenths of a second; the   *)
(* samples of the stream are numbered 1, 2, ... in the order they are      *)
(* pushed, and the buffer holds the samples lo+1..hi.                      *)

\* chunk_duration values a start message may carry: the default and one
\* below the overlap
ChunkDurations == {8, DefaultChunkDuration}

\* lengths of the audio messages
PushSizes == {2, 4, 26, 52}

NoLast == [op |-> "none"]

InitStream ==
    stream = [pc |-> "new", inbox |-> <<>>, sent |-> 0, stop_sent |-> FALSE,
              chunk_duration |-> DefaultChunkDuration,
              lo |-> 0, hi |-> 0, flushed |-> [lo |-> 0, hi |-> 0],
              transcribed |-> {}, calls |-> 0, last |-> NoLast]

\* AudioBuffer.get_duration (streaming_transcriber.py:35-39)
get_duration(st) == st.hi - st.lo

\* AudioBuffer.shift (streaming_transcriber.py:49-66): the new lower end
shift(lo, hi, keep_duration) ==
    IF hi - lo <= keep_duration THEN lo ELSE hi - keep_duration

\* streaming_transcriber.py:216: finalize transcribes what is left if it is
\* longer than 0.5 s
final_flush_needed_Never(duration) == FALSE

final_flush_needed(duration) == duration > MinFinalDuration

\* websocket.py:82-108: the start message creates the transcriber
ws_start(chunk_duration) ==
    /\ stream.pc = "new"
    /\ stream' = [stream EXCEPT !.pc = "receiving",
                                !.chunk_duration = chunk_duration]
    /\ UNCHANGED notStream

\* the client sends an audio message; it waits in the socket until the
\* handler calls receive_text
client_audio(size) ==
    /\ stream.pc \notin {"new", "closed"}
    /\ ~stream.stop_sent
    /\ stream.sent < MaxPushes
    /\ stream' = [stream EXCEPT
                    !.inbox = Append(@, [type |-> "audio", size |-> size]),
                    !.sent = @ + 1]
    /\ UNCHANGED notStream

\* the client sends the stop message
client_stop ==
    /\ stream.pc \notin {"new", "closed"}
    /\ ~stream.stop_sent
    /\ stream' = [stream EXCEPT
                    !.inbox = Append(@, [type |-> "stop", size |-> 0]),
                    !.stop_sent = TRUE]
    /\ UNCHANGED notStream

\* websocket.py:71, 110-123 and streaming_transcriber.py:111-149: the
\* handler receives an audio message and calls process_audio_chunk, which
\* appends to the buffer and returns None below the threshold; otherwise
\* _transcribe_buffer writes the whole buffer to a WAV file, hands it to the
\* executor and awaits the result
process_audio_chunk ==
    /\ stream.pc = "receiving"
    /\ stream.inbox # <<>>
    /\ Head(stream.inbox).type = "audio"
    /\ LET hi == stream.hi + Head(stream.inbox).size
           before == [op |-> "push", reached |-> FALSE, calls_before |-> stream.calls,
                      flushed |-> [lo |-> stream.lo, hi |-> hi], raised |-> FALSE]
       IN  IF hi - stream.lo < stream.chunk_duration
           THEN stream' = [stream EXCEPT !.inbox = Tail(@), !.hi = hi,
                                         !.last = before]
           ELSE stream' = [stream EXCEPT
                             !.inbox = Tail(@), !.hi = hi,
                             !.pc = "transcribing",
                             !.calls = @ + 1,
                             !.flushed = [lo |-> stream.lo, hi |-> hi],
                             !.transcribed = @ \cup ((stream.lo + 1)..hi),
                             !.last = NoLast]
    /\ UNCHANGED notStream

\* streaming_transcriber.py:151-168 and 130-135: the executor's call ends.
\* A successful result gives the text and the buffer is shifted. A failed
\* result has text None (transcription_engine.py:143-150), on which
\* result.get("text", "").strip() raises; the exception leaves
\* process_audio_chunk before the shift and ends the connection
\* (websocket.py:244-256), whose cleanup() clears the buffer.
transcribe_done(engine_ok) ==
    /\ stream.pc = "transcribing"
    /\ LET done == [op |-> "push", reached |-> TRUE,
                    calls_before |-> stream.calls - 1,
                    flushed |-> stream.flushed, raised |-> ~engine_ok]
       IN  IF engine_ok
           THEN stream' = [stream EXCEPT
                             !.pc = "receiving",
                             !.lo = shift(stream.lo, stream.hi, OverlapDuration),
                             !.last = done]
           ELSE stream' = [stream EXCEPT
                             !.pc = "closed",
                             !.lo = stream.hi,
                             !.last = done]
    /\ UNCHANGED notStream

\* websocket.py:163-183 and streaming_transcriber.py:208-217: the handler
\* receives the stop message and runs finalize, which transcribes what is
\* left in the buffer if it is long enough
finalize ==
    /\ stream.pc = "receiving"
    /\ stream.inbox # <<>>
    /\ Head(stream.inbox).type = "stop"
    /\ IF final_flush_needed(get_duration(stream))
       THEN stream' = [stream EXCEPT
                         !.inbox = Tail(@),
                         !.pc = "finalizing",
                         !.calls = @ + 1,
                         !.flushed = [lo |-> stream.lo, hi |-> stream.hi],
                         !.transcribed = @ \cup ((stream.lo + 1)..stream.hi),
                         !.last = NoLast]
       ELSE stream' = [stream EXCEPT
                         !.inbox = Tail(@),
                         !.pc = "closed",
                         !.lo = stream.hi,
                         !.last = [op |-> "finalize", calls_before |-> stream.calls,
                                   tail |-> [lo |-> stream.lo, hi |-> stream.hi],
                                   raised |-> FALSE]]
    /\ UNCHANGED notStream

\* streaming_transcriber.py:217-229 and websocket.py:183-230: the final
\* transcription ends, the complete message is sent (or the error, when the
\* result was a failure), and cleanup() clears the buffer
finalize_done(engine_ok) ==
    /\ stream.pc = "finalizing"
    /\ stream' = [stream EXCEPT
                    !.pc = "closed",
                    !.lo = stream.hi,
                    !.last = [op |-> "finalize", calls_before |-> stream.calls - 1,
                              tail |-> stream.flushed, raised |-> ~engine_ok]]
    /\ UNCHANGED notStream

----------------------------------------------------------------------------
(* Recording sessions (web/services/recording_session.py). Durations are   *)
(* counted in tenths of a second, as in live streaming. A chunk file is    *)
(* named by its index in the temp directory of the session.                *)

\* lengths in bytes of the audio data given to add_chunk: nothing, 0.1 s
\* and 0.2 s of 16-bit mono PCM at 16 kHz
ChunkSizes == {0, 3200, 6400}

\* transcripts given to pause_session; "" is also the default of the argument
Transcripts == {"", "hello", "hello world"}

\* how open() and write() of add_chunk end: both succeed, open raises and
\* no file is created, or write raises after open has created the file
WriteOutcomes == {"ok", "open_fails", "write_fails"}

\* recording_session.py:61-62: duration of audio_data, in tenths of a second
chunk_duration_of(size_bytes) ==
    (size_bytes * 10) \div (BytesPerSample * Channels * SampleRate)

\* the RecordingSession dataclass after construction
\* (recording_session.py:32-48)
NewSession ==
    [chunks |-> <<>>, total_duration |-> 0, is_paused |-> FALSE,
     paused_at |-> NoTime, transcript_text |-> ""]

\* a session with its temp directory: obj is the RecordingSession, dir says
\* whether the directory exists and files is the set of chunk files in it
NewStore == [obj |-> NewSession, dir |-> TRUE, files |-> {}]

\* RecordingSession.add_chunk (recording_session.py:50-83): the store
\* after the call and whether the call raised. The file
\* chunk_<len(chunks)>.raw is opened for writing (which needs the
\* directory) and written, then the chunk is appended and total_duration
\* grows.
add_chunk_AppendFirst(st, size_bytes, outcome) ==
    LET duration == chunk_duration_of(size_bytes)
        index == Len(st.obj.chunks)
        chunk == [path |-> index, start_time |-> st.obj.total_duration,
                  duration |-> duration, size_bytes |-> size_bytes]
        appended == [st.obj EXCEPT !.chunks = Append(@, chunk),
                                   !.total_duration = @ + duration]
    IN  IF ~st.dir \/ outcome = "open_fails"
        THEN [store |-> [st EXCEPT !.obj = appended], raised |-> TRUE]
        ELSE [store |-> [st EXCEPT !.files = @ \cup {index}, !.obj = appended],
              raised |-> outcome = "write_fails"]

add_chunk(st, size_bytes, outcome) ==
    LET duration == chunk_duration_of(size_bytes)
        index == Len(st.obj.chunks)
        chunk == [path |-> index, start_time |-> st.obj.total_duration,
                  duration |-> duration, size_bytes |-> size_bytes]
    IN  IF ~st.dir \/ outcome = "open_fails"
        THEN [store |-> st, raised |-> TRUE]
        ELSE IF outcome = "write_fails"
        THEN [store |-> [st EXCEPT !.files = @ \cup {index}], raised |-> TRUE]
        ELSE [store |-> [st EXCEPT
                           !.files = @ \cup {index},
                           !.obj = [@ EXCEPT !.chunks = Append(@, chunk),
                                             !.total_duration = @ + duration]],
              raised |-> FALSE]

\* the paths of the chunks of a session
ChunkPaths(obj) == {obj.chunks[i].path : i \in 1..Len(obj.chunks)}

\* RecordingSession.cleanup (recording_session.py:148-163): the files of
\* the chunks are unlinked, the directory is removed if that left it empty
\* (os.rmdir raises otherwise, which is swallowed), and the chunk list is
\* cleared
cleanup(st) ==
    LET left == st.files \ ChunkPaths(st.obj)
    IN  [st EXCEPT !.files = left,
                   !.dir = st.dir /\ left # {},
                   !.obj = [@ EXCEPT !.chunks = <<>>]]

\* RecordingSession.pause_session (recording_session.py:186-196)
pause_session_Always(obj, transcript, now) ==
    [obj EXCEPT !.is_paused = TRUE, !.paused_at = now,
                !.transcript_text = transcript]

pause_session(obj, transcript, now) ==
    [obj EXCEPT !.is_paused = TRUE, !.paused_at = now,
                !.transcript_text = IF transcript # "" THEN transcript ELSE @]

\* RecordingSession.resume_session (recording_session.py:198-212): the
\* session after the call, and what the call returns
resumed(obj) == [obj EXCEPT !.is_paused = FALSE, !.paused_at = NoTime]

resume_result(obj) ==
    [prior_duration |-> obj.total_duration,
     prior_transcript |-> obj.transcript_text]

\* RecordingSession.get_stats (recording_session.py:165-174)
get_stats(obj) ==
    [chunk_count |-> Len(obj.chunks), total_duration |-> obj.total_duration]

NoRet == [op |-> "none"]

\* the SessionManager singleton after construction
\* (recording_session.py:243-249), with its callers: sessions holds every
\* RecordingSession constructed so far, the session id being its index
\* (uuid4 ids are taken as fresh); status says whether it is constructed but
\* not yet stored in _sessions, registered in _sessions, or removed from it.
\* cpc is the position of the thread in create_session, spc that of the
\* thread in cleanup_old_sessions.
InitMgr ==
    [sessions |-> <<>>, cpc |-> "idle", spc |-> "idle",
     current_time |-> NoTime, max_age_seconds |-> 0, ops |-> 0, ret |-> NoRet]

InitSession ==
    session = [store |-> NewStore, registered |-> TRUE, calls |-> 0,
               before |-> NewStore, ret |-> NoRet, prev |-> NoRet,
               mgr |-> InitMgr]

\* what every call of the session specification records: the store before
\* the call, the call made before it, and one more call made
called(ret_value) ==
    [session EXCEPT !.calls = @ + 1, !.before = session.store,
                    !.prev = session.ret, !.ret = ret_value]

\* session.add_chunk(audio_data) on the session object; only a write of
\* some bytes can fail
session_add_chunk(size_bytes, outcome) ==
    /\ session.calls < MaxSessionCalls
    /\ outcome = "write_fails" => size_bytes > 0
    /\ LET r == add_chunk(session.store, size_bytes, outcome)
       IN  session' = [called([op |-> "add_chunk", size_bytes |-> size_bytes,
                               outcome |-> outcome, raised |-> r.raised])
                         EXCEPT !.store = r.store]
    /\ UNCHANGED notSession

\* session.cleanup() on the session object
session_cleanup ==
    /\ session.calls < MaxSessionCalls
    /\ session' = [called([op |-> "cleanup", raised |-> FALSE])
                     EXCEPT !.store = cleanup(session.store)]
    /\ UNCHANGED notSession

\* SessionManager.remove_session (recording_session.py:277-282): the
\* session is popped and cleaned up if it was registered
remove_session ==
    /\ session.calls < MaxSessionCalls
    /\ session' = [called([op |-> "remove_session", raised |-> FALSE,
                           found |-> session.registered])
                     EXCEPT !.registered = FALSE,
                            !.store = IF session.registered
                                      THEN cleanup(session.store) ELSE @]
    /\ UNCHANGED notSession

\* session.pause_session(transcript) on the session object, and
\* SessionManager.pause_session (recording_session.py:284-299), which
\* pauses the session if it is registered and returns it
session_pause(transcript, by_manager) ==
    /\ session.calls < MaxSessionCalls
    /\ LET found == ~by_manager \/ session.registered
       IN  session' = [called([op |-> "pause_session", transcript |-> transcript,
                               found |-> found, raised |-> FALSE])
                         EXCEPT !.store.obj = IF found
                                              THEN pause_session(@, transcript, clock)
                                              ELSE @]
    /\ UNCHANGED notSession

\* session.resume_session() on the session object
session_resume ==
    /\ session.calls < MaxSessionCalls
    /\ session' = [called([op |-> "resume_session", raised |-> FALSE,
                           result |-> resume_result(session.store.obj)])
                     EXCEPT !.store.obj = resumed(@)]
    /\ UNCHANGED notSession

\* SessionManager.get_paused_session (recording_session.py:301-315): the
\* session if it is registered and paused, else None
get_paused_session ==
    /\ session.calls < MaxSessionCalls
    /\ session' = called([op |-> "get_paused_session", raised |-> FALSE,
                          found |-> session.registered /\ session.store.obj.is_paused])
    /\ UNCHANGED notSession

\* max_age_seconds arguments of cleanup_old_sessions, in ticks
MaxAges == {0, 1}

\* the ids SessionManager calls are made with
MgrIds == 1..MaxMgrSessions

\* the ids stored in SessionManager._sessions
Registered(m) ==
    {i \in 1..Len(m.sessions) : m.sessions[i].status = "registered"}

\* create_session up to the lock (recording_session.py:261-265): the
\* RecordingSession is constructed, which reads the clock for created_at and
\* makes the temp directory
mgr_construct ==
    /\ session.mgr.cpc = "idle"
    /\ Len(session.mgr.sessions) < MaxMgrSessions
    /\ session' = [session EXCEPT
                     !.mgr.sessions = Append(@, [created_at |-> clock,
                                                 status |-> "constructed",
                                                 store |-> NewStore]),
                     !.mgr.cpc = "constructed"]
    /\ UNCHANGED notSession

\* create_session under the lock (recording_session.py:267-270): the session
\* is stored under its id and returned
mgr_register ==
    /\ session.mgr.cpc = "constructed"
    /\ LET id == Len(session.mgr.sessions)
       IN  session' = [session EXCEPT
                         !.mgr.sessions[id].status = "registered",
                         !.mgr.cpc = "idle",
                         !.mgr.ret = [op |-> "create_session", session_id |-> id]]
    /\ UNCHANGED notSession

\* add_chunk on a session that create_session returned and that is still
\* registered
mgr_add_chunk(id, size_bytes) ==
    /\ session.mgr.ops < MaxMgrCalls
    /\ id \in Registered(session.mgr)
    /\ session' = [session EXCEPT
                     !.mgr.sessions[id].store = add_chunk(@, size_bytes, "ok").store,
                     !.mgr.ops = @ + 1,
                     !.mgr.ret = [op |-> "add_chunk", session_id |-> id]]
    /\ UNCHANGED notSession

\* SessionManager.get_session (recording_session.py:272-275)
mgr_get_session(id) ==
    /\ session.mgr.ops < MaxMgrCalls
    /\ session' = [session EXCEPT
                     !.mgr.ops = @ + 1,
                     !.mgr.ret = [op |-> "get_session", session_id |-> id,
                                  found |-> id \in Registered(session.mgr)]]
    /\ UNCHANGED notSession

\* SessionManager.remove_session (recording_session.py:277-282) on the
\* registry of several sessions
mgr_remove_session(id) ==
    /\ session.mgr.ops < MaxMgrCalls
    /\ LET found == id \in Registered(session.mgr)
       IN  session' = [session EXCEPT
                         !.mgr.sessions = IF found
                                          THEN [@ EXCEPT ![id].status = "removed",
                                                         ![id].store = cleanup(@)]
                                          ELSE @,
                         !.mgr.ops = @ + 1,
                         !.mgr.ret = [op |-> "remove_session", session_id |-> id,
                                      found |-> found]]
    /\ UNCHANGED notSession

\* SessionManager.pause_session (recording_session.py:284-299) on the
\* registry of several sessions
mgr_pause_session(id, transcript) ==
    /\ session.mgr.ops < MaxMgrCalls
    /\ LET found == id \in Registered(session.mgr)
       IN  session' = [session EXCEPT
                         !.mgr.sessions = IF found
                                          THEN [@ EXCEPT ![id].store.obj =
                                                  pause_session(@, transcript, clock)]
                                          ELSE @,
                         !.mgr.ops = @ + 1,
                         !.mgr.ret = [op |-> "pause_session", session_id |-> id,
                                      found |-> found]]
    /\ UNCHANGED notSession

\* cleanup_old_sessions up to the lock (recording_session.py:327-328): the
\* clock is read before the lock is taken
mgr_sweep_time(max_age_seconds) ==
    /\ session.mgr.spc = "idle"
    /\ session.mgr.ops < MaxMgrCalls
    /\ session' = [session EXCEPT !.mgr.spc = "timed",
                                  !.mgr.current_time = clock,
                                  !.mgr.max_age_seconds = max_age_seconds,
                                  !.mgr.ops = @ + 1]
    /\ UNCHANGED notSession

\* the test of cleanup_old_sessions (recording_session.py:332)
is_old_Inclusive(current_time, created_at, max_age_seconds) ==
    current_time - created_at >= max_age_seconds

is_old(current_time, created_at, max_age_seconds) ==
    current_time - created_at > max_age_seconds

\* cleanup_old_sessions under the lock (recording_session.py:330-340): the
\* old sessions are collected, popped and cleaned up, and their number is
\* returned
mgr_sweep_locked ==
    /\ session.mgr.spc = "timed"
    /\ LET m == session.mgr
           to_remove == {i \in Registered(m) :
                            is_old(m.current_time, m.sessions[i].created_at,
                                   m.max_age_seconds)}
       IN  session' = [session EXCEPT
                         !.mgr.sessions =
                             [i \in 1..Len(m.sessions) |->
                                 IF i \in to_remove
                                 THEN [m.sessions[i] EXCEPT
                                         !.status = "removed",
                                         !.store = cleanup(@)]
                                 ELSE m.sessions[i]],
                         !.mgr.spc = "idle",
                         !.mgr.ret = [op |-> "cleanup_old_sessions",
                                      count |-> Cardinality(to_remove)]]
    /\ UNCHANGED notSession

----------------------------------------------------------------------------
(* The WebSocket handler websocket_transcribe (web/routes/websocket.py).   *)
(* The handler treats one message at a time; while it awaits a             *)
(* transcription it receives nothing. reply holds the events sent since    *)
(* the last message was received, steps the teardown operations run since  *)
(* then, each with the number of events sent before it.                    *)

\* lengths of the audio messages, in tenths of a second
WsAudioSizes == {4, 52}

\* the data field of an audio or flush message: base64 text, text whose
\* padding is wrong (b64decode raises), and text with characters outside
\* the alphabet, which b64decode discards without raising (validate=False)
Payloads == {"ok", "bad_padding", "bad_chars"}

\* message types the dispatch has no branch for
UnknownTypes == {"pause", "resume"}

\* what the engine gives for one buffer: a text, an empty text, or a failed
\* result, whose text is None (transcription_engine.py:143-150)
EngineOutcomes == {"text", "empty", "failed"}

CompleteKeys == {"type", "text", "is_final", "segments", "session_duration"}
EmptyCompleteKeys == {"type", "text", "is_final", "segments"}

NoMessage == [kind |-> "none"]

\* the text the engine gives for the n-th transcription call of a session
FragmentText(n) == "t" \o ToString(n)

\* streaming_transcriber.py:151-153: a text that is not empty is appended
\* to _full_transcript
append_text_Front(texts, text) == IF text = "" THEN texts ELSE <<text>> \o texts

append_text(texts, text) == IF text = "" THEN texts ELSE Append(texts, text)

\* streaming_transcriber.py:223: " ".join(self._full_transcript)
RECURSIVE join(_)
join(texts) ==
    IF texts = <<>> THEN ""
    ELSE IF Len(texts) = 1 THEN texts[1]
    ELSE texts[1] \o " " \o join(Tail(texts))

\* the engine's call of a session ends: one call less in flight, and the
\* text of a call that gave one is appended
call_done(w, outcome) ==
    [w EXCEPT !.in_flight = @ - 1,
              !.calls = Append(@, outcome),
              !.texts = append_text(@, IF outcome = "text"
                                       THEN FragmentText(Len(w.calls) + 1) ELSE "")]

\* session_id None in the ready event
NoSessionId == 0

\* websocket.py:60-65: the connection is accepted, no transcriber, no session
InitWs ==
    ws = [pc |-> "open", transcriber |-> FALSE, chunk_duration |-> DefaultChunkDuration,
          buffer |-> 0, texts |-> <<>>, in_flight |-> 0, calls |-> <<>>,
          has_session |-> FALSE, session_id |-> NoSessionId, store |-> NewStore,
          registry |-> {}, created |-> 0, orphaned |-> <<>>,
          received |-> 0, msg |-> NoMessage, reply |-> <<>>, steps |-> <<>>,
          pings |-> 0, completes |-> 0,
          before |-> [buffer |-> 0, texts |-> <<>>, transcriber |-> FALSE,
                      has_session |-> FALSE, store |-> NewStore]]

\* websocket.send_json(event)
send(w, event) ==
    [w EXCEPT !.reply = Append(@, event),
              !.completes = @ + (IF event.type = "complete" THEN 1 ELSE 0)]

step(w, op) == [w EXCEPT !.steps = Append(@, [op |-> op, sent |-> Len(w.reply)])]

\* websocket.py:71-72: a message is received
receive(msg) ==
    [ws EXCEPT !.received = @ + 1, !.msg = msg, !.reply = <<>>, !.steps = <<>>,
               !.pings = 0,
               !.before = [buffer |-> ws.buffer, texts |-> ws.texts,
                           transcriber |-> ws.transcriber,
                           has_session |-> ws.has_session, store |-> ws.store]]

\* StreamingTranscriber.cleanup (streaming_transcriber.py:231-244)
transcriber_cleanup(w) ==
    step([w EXCEPT !.buffer = 0, !.texts = <<>>], "transcriber.cleanup")

\* websocket.py:252-256: the finally clause of the handler, after which the
\* connection is closed
ws_finally(w) ==
    LET a == IF w.transcriber THEN transcriber_cleanup(w) ELSE w
        b == IF a.has_session
             THEN step([a EXCEPT !.registry = @ \ {a.session_id},
                                 !.store = IF a.session_id \in a.registry
                                           THEN cleanup(@) ELSE @],
                       "remove_session")
             ELSE a
    IN  [b EXCEPT !.pc = "closed"]

\* websocket.py:244-256: an exception leaves the receive loop; its text is
\* sent as an error event and the finally clause runs
ws_raise(w) == ws_finally(send(w, [type |-> "error", error |-> "exception"]))

\* websocket.py:236-240
unknown_type(w) == send(w, [type |-> "error", error |-> "Unknown message type"])

\* websocket.py:185-230 and 252-256: finalize has returned; complete is
\* sent, the recording is saved to the history (a failure of which is
\* swallowed), the transcriber is cleaned up and dropped, and the loop is
\* left
ws_complete(w) ==
    LET a == send(step(w, "finalize_finished"),
                  [type |-> "complete", text |-> join(w.texts),
                   session_duration |-> IF w.has_session
                                        THEN w.store.obj.total_duration ELSE 0,
                   keys |-> CompleteKeys])
        b == [transcriber_cleanup(a) EXCEPT !.transcriber = FALSE]
    IN  ws_finally(b)

\* websocket.py:71-78: the text received is not JSON
ws_invalid_json ==
    /\ ws.pc = "open"
    /\ ws.received < MaxWsMessages
    /\ ws' = send(receive([kind |-> "invalid_json"]),
                  [type |-> "error", error |-> "Invalid JSON message"])
    /\ UNCHANGED notWs

\* websocket.py:72 and 80: the text received is JSON but not an object (a
\* list, a string, a number, null), so that message.get raises
\* AttributeError outside the inner try
ws_non_object ==
    /\ ws.pc = "open"
    /\ ws.received < MaxWsMessages
    /\ ws' = ws_raise(receive([kind |-> "non_object"]))
    /\ UNCHANGED notWs

\* websocket.py:82-108: start creates a new transcriber and, with
\* enable_persistence, a new session that is registered with the manager
\* (recording_session.py:251-270) and bound to the local variable session;
\* the session that variable held before stays registered, with its
\* directory, and is kept in orphaned. Without enable_persistence the
\* local session is left as it was.
ws_start_message(chunk_duration, enable_persistence) ==
    /\ ws.pc = "open"
    /\ ws.received < MaxWsMessages
    /\ LET r == receive([kind |-> "start", enable_persistence |-> enable_persistence])
           t == [r EXCEPT !.transcriber = TRUE, !.chunk_duration = chunk_duration,
                          !.buffer = 0, !.texts = <<>>, !.calls = <<>>]
           id == ws.created + 1
       IN  ws' = IF enable_persistence
                 THEN send([t EXCEPT !.created = id, !.has_session = TRUE,
                                     !.session_id = id, !.store = NewStore,
                                     !.registry = @ \cup {id},
                                     !.orphaned = IF ws.has_session
                                                  THEN Append(@, [id |-> ws.session_id,
                                                                  store |-> ws.store])
                                                  ELSE @],
                           [type |-> "ready", session_id |-> id])
                 ELSE send(t, [type |-> "ready", session_id |-> NoSessionId])
    /\ UNCHANGED notWs

\* websocket.py:110-132 and streaming_transcriber.py:111-128: an audio
\* message; below the threshold process_audio_chunk returns None and
\* nothing is sent, otherwise the handler awaits _transcribe_buffer
ws_audio(size, payload) ==
    /\ ws.pc = "open"
    /\ ws.received < MaxWsMessages
    /\ LET r == receive([kind |-> "audio", payload |-> payload])
       IN  ws' = IF ~ws.transcriber THEN unknown_type(r)
                 ELSE IF payload = "bad_padding"
                 THEN send(r, [type |-> "error", error |-> "Invalid base64 audio data"])
                 ELSE IF ws.buffer + size < ws.chunk_duration
                 THEN [r EXCEPT !.buffer = @ + size]
                 ELSE [r EXCEPT !.buffer = @ + size, !.pc = "transcribing",
                                !.in_flight = @ + 1]
    /\ UNCHANGED notWs

\* streaming_transcriber.py:142-168 and 130-135, websocket.py:123-132: the
\* engine's call ends. On a failed result .strip() raises on the text None
\* and the exception leaves the handler's loop.
ws_transcribe_done(outcome) ==
    /\ ws.pc = "transcribing"
    /\ LET done == call_done(ws, outcome)
           shifted_buffer == ws.buffer - shift(0, ws.buffer, OverlapDuration)
       IN  ws' = CASE outcome = "failed" -> ws_raise(done)
                   [] outcome = "empty" ->
                        [done EXCEPT !.pc = "open", !.buffer = shifted_buffer]
                   [] outcome = "text" ->
                        send([done EXCEPT !.pc = "open", !.buffer = shifted_buffer],
                             [type |-> "transcript"])
    /\ UNCHANGED notWs

\* websocket.py:134-153: a flush message persists audio in the session
ws_flush(size_bytes, payload, outcome) ==
    /\ ws.pc = "open"
    /\ ws.received < MaxWsMessages
    /\ LET r == receive([kind |-> "flush", payload |-> payload,
                         size_bytes |-> size_bytes, outcome |-> outcome])
           a == add_chunk(ws.store, size_bytes, outcome)
       IN  ws' = IF ~ws.has_session THEN unknown_type(r)
                 ELSE IF payload = "bad_padding"
                 THEN send(r, [type |-> "flush_ack", success |-> FALSE])
                 ELSE IF a.raised
                 THEN send([r EXCEPT !.store = a.store],
                           [type |-> "flush_ack", success |-> FALSE])
                 ELSE send([r EXCEPT !.store = a.store],
                           [type |-> "flush_ack", success |-> TRUE,
                            chunk_duration |-> chunk_duration_of(size_bytes),
                            total_duration |-> a.store.obj.total_duration,
                            chunk_count |-> Len(a.store.obj.chunks)])
    /\ UNCHANGED notWs

\* websocket.py:155-161
ws_session_stats ==
    /\ ws.pc = "open"
    /\ ws.received < MaxWsMessages
    /\ LET r == receive([kind |-> "session_stats"])
           stats == get_stats(ws.store.obj)
       IN  ws' = IF ~ws.has_session THEN unknown_type(r)
                 ELSE send(r, [type |-> "session_stats",
                               chunk_count |-> stats.chunk_count,
                               total_duration |-> stats.total_duration])
    /\ UNCHANGED notWs

\* websocket.py:163-230, 23-31 and streaming_transcriber.py:208-217: stop.
\* With a transcriber the status is sent and finalize is started as a
\* task, which transcribes a buffer of more than 0.5 s and otherwise
\* returns at once; without one an empty complete is sent.
ws_stop ==
    /\ ws.pc = "open"
    /\ ws.received < MaxWsMessages
    /\ LET r == receive([kind |-> "stop"])
           a == send(r, [type |-> "status"])
           b == IF ws.has_session /\ Len(ws.store.obj.chunks) > 0
                THEN send(a, [type |-> "status"]) ELSE a
           c == step(b, "finalize_started")
       IN  ws' = IF ~ws.transcriber
                 THEN ws_finally(send(r, [type |-> "complete", text |-> "",
                                          keys |-> EmptyCompleteKeys]))
                 ELSE IF final_flush_needed(ws.buffer)
                 THEN [c EXCEPT !.pc = "finalizing", !.in_flight = @ + 1]
                 ELSE ws_complete(c)
    /\ UNCHANGED notWs

\* websocket.py:33-40: a second has passed with finalize still pending
ws_keepalive_ping ==
    /\ ws.pc = "finalizing"
    /\ ws.pings < MaxPings
    /\ ws' = [send(ws, [type |-> "ping"]) EXCEPT !.pings = @ + 1]
    /\ UNCHANGED notWs

\* streaming_transcriber.py:217-229 and websocket.py:42, 183: the
\* transcription of the last buffer ends; a failed result raises in
\* finalize and finalize_task.result() raises it in the handler
ws_finalize_done(outcome) ==
    /\ ws.pc = "finalizing"
    /\ ws' = IF outcome = "failed" THEN ws_raise(call_done(ws, outcome))
             ELSE ws_complete(call_done(ws, outcome))
    /\ UNCHANGED notWs

\* websocket.py:232-234
ws_ping ==
    /\ ws.pc = "open"
    /\ ws.received < MaxWsMessages
    /\ ws' = send(receive([kind |-> "ping"]), [type |-> "pong"])
    /\ UNCHANGED notWs

\* websocket.py:236-240: a type without a branch
ws_unknown(type) ==
    /\ ws.pc = "open"
    /\ ws.received < MaxWsMessages
    /\ ws' = unknown_type(receive([kind |-> type]))
    /\ UNCHANGED notWs

\* websocket.py:242-243 and 252-256: the client has gone and receive_text
\* raises WebSocketDisconnect
ws_disconnect ==
    /\ ws.pc = "open"
    /\ ws' = ws_finally([ws EXCEPT !.msg = [kind |-> "disconnect"],
                                   !.reply = <<>>, !.steps = <<>>])
    /\ UNCHANGED notWs

----------------------------------------------------------------------------
(* One cache file under concurrent use (performance_optimizations.py       *)
(* 106-147): a thread runs set_transcription_cache and another             *)
(* get_transcription_cache for the same fingerprint; CacheManager has no   *)
(* lock. The file is a sequence of blocks, each tagged with the number of  *)
(* the set that wrote it (0: written before). inodes holds the contents of *)
(* the files ever created under the path, path the one the name refers to  *)
(* now (NoInode: the file does not exist).                                 *)

NoInode == 0

\* a complete entry of one version
Entry(version) == [i \in 1..EntryBlocks |-> version]

\* the cache file does not exist yet
InitRace ==
    race = [inodes |-> <<>>, path |-> NoInode,
            wpc |-> "idle", wfd |-> NoInode, sets |-> 0,
            rpc |-> "idle", rfd |-> NoInode, got |-> <<>>, gets |-> 0,
            ret |-> [kind |-> "none"]]

\* performance_optimizations.py:138-139: open(cache_path, 'wb') creates the
\* file or truncates the one that exists
set_open ==
    /\ race.wpc = "idle"
    /\ race.sets < MaxRaceSets
    /\ IF race.path = NoInode
       THEN race' = [race EXCEPT !.inodes = Append(@, <<>>),
                                 !.path = Len(race.inodes) + 1,
                                 !.wfd = Len(race.inodes) + 1,
                                 !.wpc = "writing"]
       ELSE race' = [race EXCEPT !.inodes[race.path] = <<>>,
                                 !.wfd = race.path,
                                 !.wpc = "writing"]
    /\ UNCHANGED notRace

\* performance_optimizations.py:140: pickle.dump writes the entry through
\* the buffered file, one block at a time
set_write_block ==
    /\ race.wpc = "writing"
    /\ LET content == Append(race.inodes[race.wfd], race.sets + 1)
       IN  race' = [race EXCEPT !.inodes[race.wfd] = content,
                                !.wpc = IF Len(content) = EntryBlocks
                                        THEN "cleanup" ELSE "writing"]
    /\ UNCHANGED notRace

\* performance_optimizations.py:143-144 and 85-101: _cleanup_cache ends the
\* set; it unlinks this file if the budget is exceeded and the file is
\* among the oldest, which the other entries of the cache decide
set_cleanup(evict) ==
    /\ race.wpc = "cleanup"
    /\ race' = [race EXCEPT !.path = IF evict THEN NoInode ELSE @,
                            !.wfd = NoInode,
                            !.sets = @ + 1,
                            !.wpc = "idle"]
    /\ UNCHANGED notRace

\* what a get returns: the unpickled value
get_returns(value) ==
    [race EXCEPT !.rpc = "idle", !.rfd = NoInode, !.got = <<>>, !.gets = @ + 1,
                 !.ret = [kind |-> "value", value |-> value]]

\* performance_optimizations.py:119-127: the else branch and the except
\* branch both count a miss and return None
get_misses ==
    [race EXCEPT !.rpc = "idle", !.rfd = NoInode, !.got = <<>>, !.gets = @ + 1,
                 !.ret = [kind |-> "miss"]]

\* performance_optimizations.py:115: cache_path.exists()
get_exists ==
    /\ race.rpc = "idle"
    /\ race.gets < MaxRaceGets
    /\ race' = IF race.path = NoInode THEN get_misses
               ELSE [race EXCEPT !.rpc = "exists"]
    /\ UNCHANGED notRace

\* performance_optimizations.py:116: open(cache_path, 'rb'), which raises
\* FileNotFoundError if the file has been unlinked since
get_open ==
    /\ race.rpc = "exists"
    /\ race' = IF race.path = NoInode THEN get_misses
               ELSE [race EXCEPT !.rpc = "reading", !.rfd = race.path, !.got = <<>>]
    /\ UNCHANGED notRace

\* performance_optimizations.py:117: pickle.load reads the next block of
\* the open file; at the end of a file that is too short it raises
\* (EOFError, UnpicklingError), and after the last block it returns the
\* value made of the blocks read. Blocks of different writes may or may
\* not fit together into a pickle (parses).
get_read_block(parses) ==
    /\ race.rpc = "reading"
    /\ LET content == race.inodes[race.rfd]
           got == Append(race.got, content[Len(race.got) + 1])
       IN  race' = IF Len(content) <= Len(race.got) THEN get_misses
                   ELSE IF Len(got) < EntryBlocks THEN [race EXCEPT !.got = got]
                   ELSE IF parses \/ got = Entry(got[1]) THEN get_returns(got)
                   ELSE get_misses
    /\ UNCHANGED notRace

----------------------------------------------------------------------------
(* TranscriptionAPI (web/services/transcription_api.py), the singleton     *)
(* every request uses. transcribe_file runs on the event loop: it writes   *)
(* the request's settings into the one Settings object and hands           *)
(* service.transcribe_file to the thread pool. The workers of the pool run *)
(* concurrently with the event loop and with each other, and every         *)
(* TranscriptionService holds that same Settings object.                   *)

\* ThreadPoolExecutor(max_workers=2)
ExecutorWorkers == 2

\* the model and language a request asks for
ApiSettings ==
    {[default_model |-> "base", default_language |-> "en"],
     [default_model |-> "small", default_language |-> "None"]}

\* Settings() as constructed (config/settings.py:20-21)
ApiDefaultSettings == [default_model |-> "base", default_language |-> "None"]

\* nothing read yet
NoSettings == [default_model |-> "unread", default_language |-> "unread"]

\* the singleton after __init__ (transcription_api.py:33-40): settings is
\* the shared Settings object, service says whether _service is set, lpc and
\* ljob are the position of the event loop and the job it is submitting,
\* cache the results stored in the transcription cache with the settings
\* the engine produced them with
InitApi ==
    api = [settings |-> ApiDefaultSettings, service |-> FALSE,
           lpc |-> "idle", ljob |-> 0, jobs |-> <<>>, cache |-> {}]

\* the jobs a worker of the pool is executing
Executing(a) ==
    {j \in 1..Len(a.jobs) : a.jobs[j].pc \in {"running", "looked_up", "transcribed"}}

\* TranscriptionAPI.transcribe_file up to the first assignment of
\* update_settings (transcription_api.py:59-61): _service is dropped and the
\* model is written
api_update_model(requested) ==
    /\ api.lpc = "idle"
    /\ Len(api.jobs) < MaxApiJobs
    /\ api' = [api EXCEPT
                 !.service = FALSE,
                 !.settings.default_model = requested.default_model,
                 !.lpc = "updating",
                 !.ljob = Len(api.jobs) + 1,
                 !.jobs = Append(@, [pc |-> "new", submitted |-> requested,
                                     key_read |-> NoSettings,
                                     engine_settings |-> NoSettings,
                                     stored_key |-> NoSettings,
                                     result |-> NoSettings,
                                     from_cache |-> FALSE])]
    /\ UNCHANGED notApi

\* the rest of update_settings and the submission to the pool
\* (transcription_api.py:62-67, 113-121)
api_update_rest ==
    /\ api.lpc = "updating"
    /\ api' = [api EXCEPT
                 !.settings.default_language =
                     api.jobs[api.ljob].submitted.default_language,
                 !.lpc = "idle",
                 !.jobs[api.ljob].pc = "submitted"]
    /\ UNCHANGED notApi

\* a worker of the pool starts the lambda, which evaluates self.service
\* (transcription_api.py:42-47, 116): the service is created from the
\* shared settings if there is none
worker_service(j) ==
    /\ j \in 1..Len(api.jobs)
    /\ api.jobs[j].pc = "submitted"
    /\ Cardinality(Executing(api)) < ExecutorWorkers
    /\ api' = [api EXCEPT !.service = TRUE, !.jobs[j].pc = "running"]
    /\ UNCHANGED notApi

\* the cache lookup of TranscriptionService.transcribe_file
\* (transcription_service.py:98-117): the fingerprint is made of the
\* settings as they are now, and a result stored under it is returned
worker_lookup(j) ==
    /\ j \in 1..Len(api.jobs)
    /\ api.jobs[j].pc = "running"
    /\ LET key == api.settings
           hits == {e \in api.cache : e.key = key}
       IN  IF hits # {}
           THEN \E e \in hits :
                    api' = [api EXCEPT !.jobs[j].key_read = key,
                                       !.jobs[j].result = e.made_with,
                                       !.jobs[j].from_cache = TRUE,
                                       !.jobs[j].pc = "done"]
           ELSE api' = [api EXCEPT !.jobs[j].key_read = key,
                                   !.jobs[j].pc = "looked_up"]
    /\ UNCHANGED notApi

\* _process_standard (transcription_service.py:384-423): the engine is run
\* with the model and language the settings hold now
worker_process(j) ==
    /\ j \in 1..Len(api.jobs)
    /\ api.jobs[j].pc = "looked_up"
    /\ api' = [api EXCEPT !.jobs[j].engine_settings = api.settings,
                          !.jobs[j].result = api.settings,
                          !.jobs[j].pc = "transcribed"]
    /\ UNCHANGED notApi

\* the cache store of transcribe_file (transcription_service.py:186-194):
\* the fingerprint is made again, of the settings as they are now
worker_store(j) ==
    /\ j \in 1..Len(api.jobs)
    /\ api.jobs[j].pc = "transcribed"
    /\ api' = [api EXCEPT
                 !.jobs[j].stored_key = api.settings,
                 !.jobs[j].pc = "done",
                 !.cache = {e \in @ : e.key # api.settings}
                               \cup {[key |-> api.settings,
                                      made_with |-> api.jobs[j].engine_settings]}]
    /\ UNCHANGED notApi

----------------------------------------------------------------------------
(* Specification of the job registry *)

JobIds == 1..MaxJobs

\* progress (in tenths), error and result of an update_job_status call: a
\* progress message, and a call that carries an error and a result
UpdateArgs == {<<5, NoError, NoResult>>, <<5, "Unknown error", "result">>}

CreateJob == create_job(MaxJobs)
GetJob == \E j \in JobIds : get_job(j)
UpdateJobStatus ==
    \E j \in JobIds, s \in JobStatus, a \in UpdateArgs :
        update_job_status(j, s, a[1], a[2], a[3])
DeleteJob == \E j \in JobIds : delete_job(j)
ListJobs == \E limit \in {1, DefaultLimit} : list_jobs(limit)
Init ==
    /\ InitJobs /\ InitCache /\ InitBatch /\ InitChunked /\ InitStream
    /\ InitSession /\ InitWs /\ InitRace /\ InitApi

Next ==
    \/ CreateJob
    \/ GetJob
    \/ UpdateJobStatus
    \/ DeleteJob
    \/ ListJobs
    \/ Tick

Spec == Init /\ [][Next]_vars

----------------------------------------------------------------------------
(* Specification of the background runner: jobs are created, run by       *)
(* run_transcription_job, looked up, listed and deleted while time passes. *)

RunJobIds == 1..MaxRunJobs

RunCreate == create_job(MaxRunJobs)
RunGet == \E j \in RunJobIds : get_job(j)
RunDelete == \E j \in RunJobIds : delete_job(j)
RunList == list_jobs(DefaultLimit)
RunStart == \E j \in RunJobIds : run_start(j)
RunFinish ==
    \E j \in RunJobIds, o \in {"ok", "fail", "raise"} :
        run_finish(j, o, "Unknown error")

NextRun ==
    \/ RunCreate
    \/ RunGet
    \/ RunDelete
    \/ RunList
    \/ RunStart
    \/ RunFinish
    \/ Tick

SpecRun == Init /\ [][NextRun]_vars

----------------------------------------------------------------------------
(* Specification of the outcomes of the runner: as above, with failures    *)
(* that carry any error text.                                              *)

RunFinishMessage ==
    \E j \in RunJobIds, o \in {"ok", "fail", "raise"}, message \in RunMessages :
        run_finish(j, o, message)

NextRunOutcome ==
    \/ RunCreate
    \/ RunGet
    \/ RunDelete
    \/ RunStart
    \/ RunFinishMessage
    \/ Tick

SpecRunOutcome == Init /\ [][NextRunOutcome]_vars

----------------------------------------------------------------------------
(* Specification of listing: creations, deletions and list_jobs calls in   *)
(* one tick, so that no job expires.                                       *)

ListCreate == create_job(MaxListJobs)
ListDelete == \E j \in 1..MaxListDeleteId : delete_job(j)
ListList == \E limit \in {0, 1, DefaultLimit} : list_jobs(limit)

NextList ==
    \/ ListCreate
    \/ ListDelete
    \/ ListList

SpecList == Init /\ [][NextList]_vars

----------------------------------------------------------------------------
(* Specification of the cache: direct calls of the CacheManager methods    *)
(* while input files are rewritten and time passes.                        *)

\* the (model, language, settings_hash) of a call
DirectSettings ==
    {DefaultSettings, [DefaultSettings EXCEPT !.default_model = "small"]}

\* results handed to set_transcription_cache: a short one, and one that
\* alone is larger than the cache budget
DirectResults ==
    {[success |-> TRUE, text |-> "short", word_count |-> 1, from_cache |-> FALSE],
     [success |-> TRUE, text |-> "long", word_count |-> MaxCacheSize + 1,
      from_cache |-> FALSE]}

CacheGet ==
    \E f \in InputFiles \cup {MissingFile}, s \in DirectSettings :
        get_transcription_cache(MaxCacheCalls, f, s.default_model,
                                s.default_language, _generate_settings_hash(s))
CacheSet ==
    \E f \in InputFiles \cup {MissingFile}, s \in DirectSettings, r \in DirectResults :
        set_transcription_cache(MaxCacheCalls, f, s.default_model,
                                s.default_language, _generate_settings_hash(s), r)
CacheGetAudio ==
    \E f \in InputFiles \cup {MissingFile} :
        \E read_ok \in BOOLEAN :
            get_audio_processing_cache(MaxCacheCalls, f, "normalize", read_ok)
CacheSetAudio ==
    \E f \in InputFiles \cup {MissingFile}, p \in {"b.wav", MissingFile} :
        set_audio_processing_cache(MaxCacheCalls, f, "normalize", p)
CacheModify == ModifyFile("a.wav")
CacheTick == clock < MaxCacheTime /\ Tick

NextCache ==
    \/ CacheGet
    \/ CacheSet
    \/ CacheGetAudio
    \/ CacheSetAudio
    \/ CacheModify
    \/ CacheTick

SpecCache == Init /\ [][NextCache]_vars

----------------------------------------------------------------------------
(* Specification of the service: transcribe_file requests with the default *)
(* output arguments while input files are rewritten and time passes.       *)

ServiceTranscribe ==
    \E f \in InputFiles \cup {MissingFile}, s \in SettingsSpace, ok \in BOOLEAN :
        transcribe_file(MaxCalls, f, s, ok, DefaultOutput)
ServiceModify == ModifyFile("a.wav")

NextService ==
    \/ ServiceTranscribe
    \/ ServiceModify
    \/ CacheTick

SpecService == Init /\ [][NextService]_vars

----------------------------------------------------------------------------
(* Specification of the output of the service: transcribe_file requests    *)
(* with and without an output path, in either format.                      *)

OutputTranscribe ==
    \E f \in InputFiles \cup {MissingFile}, s \in SettingsSpace, ok \in BOOLEAN,
       out \in OutputArgs :
        transcribe_file(MaxCalls, f, s, ok, out)

NextOutput ==
    \/ OutputTranscribe
    \/ ServiceModify
    \/ CacheTick

SpecOutput == Init /\ [][NextOutput]_vars

----------------------------------------------------------------------------
(* Specification of the parallel batch: the worker threads of              *)
(* process_batch interleave at the counter updates.                        *)

ProcessBatch == process_batch
GetCacheLoad == \E w \in BatchTasks : get_cache_load(w)
GetCacheStore == \E w \in BatchTasks : get_cache_store(w)
TranscribeRest == \E w \in BatchTasks, ok \in BOOLEAN : transcribe_rest(w, ok)
ClearCache == \E cache_type \in {"None", "transcriptions"} : clear_cache(cache_type)

NextBatch ==
    \/ ProcessBatch
    \/ GetCacheLoad
    \/ GetCacheStore
    \/ TranscribeRest
    \/ ClearCache

SpecBatch == Init /\ [][NextBatch]_vars

----------------------------------------------------------------------------
(* Specification of chunked processing: one source is split, its chunks    *)
(* are transcribed in turn with any outcome, and the results are merged.   *)

CreateAudioChunks ==
    \E duration \in 0..MaxDuration, chunk_duration \in 1..MaxChunkDuration,
       ffmpeg_ok \in BOOLEAN :
        create_audio_chunks(duration, chunk_duration, TRUE, ffmpeg_ok)
TranscribeChunk ==
    \E result \in UNION {EngineResults(chunked.chunks[k]) :
                            k \in 1..Len(chunked.chunks)} :
        transcribe_chunk(result)
MergeResults == merge_results

NextChunked ==
    \/ CreateAudioChunks
    \/ TranscribeChunk
    \/ MergeResults

SpecChunked == Init /\ [][NextChunked]_vars

----------------------------------------------------------------------------
(* Specification of live streaming: one connection, its client and its     *)
(* handler.                                                                *)

WsStart == \E chunk_duration \in ChunkDurations : ws_start(chunk_duration)
ClientAudio == \E size \in PushSizes : client_audio(size)
ClientStop == client_stop
ProcessAudioChunk == process_audio_chunk
TranscribeDone == \E engine_ok \in BOOLEAN : transcribe_done(engine_ok)
Finalize == finalize
FinalizeDone == \E engine_ok \in BOOLEAN : finalize_done(engine_ok)

NextStream ==
    \/ WsStart
    \/ ClientAudio
    \/ ClientStop
    \/ ProcessAudioChunk
    \/ TranscribeDone
    \/ Finalize
    \/ FinalizeDone

SpecStream == Init /\ [][NextStream]_vars

----------------------------------------------------------------------------
(* Specification of a recording session: chunks are added, with disk      *)
(* writes that may fail, the session is paused and resumed, cleaned up and *)
(* removed from the manager.                                               *)

SessionAddChunk ==
    \E size_bytes \in ChunkSizes, outcome \in WriteOutcomes :
        session_add_chunk(size_bytes, outcome)
SessionCleanup == session_cleanup
RemoveSession == remove_session
SessionPause ==
    \E transcript \in Transcripts, by_manager \in BOOLEAN :
        session_pause(transcript, by_manager)
SessionResume == session_resume
GetPausedSession == get_paused_session

NextSession ==
    \/ SessionAddChunk
    \/ SessionCleanup
    \/ RemoveSession
    \/ SessionPause
    \/ SessionResume
    \/ GetPausedSession

SpecSession == Init /\ [][NextSession]_vars

----------------------------------------------------------------------------
(* Specification of the SessionManager with several sessions: one thread   *)
(* creates sessions, one sweeps old sessions, and the other calls are made *)
(* in any order between their steps while time passes.                     *)

MgrConstruct == mgr_construct
MgrRegister == mgr_register
MgrAddChunk ==
    \E id \in MgrIds, size_bytes \in ChunkSizes \ {0} : mgr_add_chunk(id, size_bytes)
MgrGetSession == \E id \in MgrIds : mgr_get_session(id)
MgrRemoveSession == \E id \in MgrIds : mgr_remove_session(id)
MgrPauseSession == \E id \in MgrIds : mgr_pause_session(id, "hello")
MgrSweepTime == \E max_age_seconds \in MaxAges : mgr_sweep_time(max_age_seconds)
MgrSweepLocked == mgr_sweep_locked
MgrTick == clock < MaxMgrTime /\ Tick

NextManager ==
    \/ MgrConstruct
    \/ MgrRegister
    \/ MgrAddChunk
    \/ MgrGetSession
    \/ MgrRemoveSession
    \/ MgrPauseSession
    \/ MgrSweepTime
    \/ MgrSweepLocked
    \/ MgrTick

SpecManager == Init /\ [][NextManager]_vars

----------------------------------------------------------------------------
(* Specification of the shared TranscriptionAPI: requests arrive on the    *)
(* event loop while the workers of the pool run.                           *)

ApiUpdateModel == \E requested \in ApiSettings : api_update_model(requested)
ApiUpdateRest == api_update_rest
WorkerService == \E j \in 1..MaxApiJobs : worker_service(j)
WorkerLookup == \E j \in 1..MaxApiJobs : worker_lookup(j)
WorkerProcess == \E j \in 1..MaxApiJobs : worker_process(j)
WorkerStore == \E j \in 1..MaxApiJobs : worker_store(j)

NextApi ==
    \/ ApiUpdateModel
    \/ ApiUpdateRest
    \/ WorkerService
    \/ WorkerLookup
    \/ WorkerProcess
    \/ WorkerStore

SpecApi == Init /\ [][NextApi]_vars

----------------------------------------------------------------------------
(* Specification of one WebSocket connection: the client sends any         *)
(* messages in any order and the engine answers as it likes.               *)

WsInvalidJson == ws_invalid_json
WsNonObject == ws_non_object
WsStartMsg == \E enable_persistence \in BOOLEAN :
                  ws_start_message(DefaultChunkDuration, enable_persistence)
WsAudio == \E size \in WsAudioSizes, payload \in Payloads : ws_audio(size, payload)
WsTranscribeDone == \E outcome \in EngineOutcomes : ws_transcribe_done(outcome)
WsFlush ==
    \E size_bytes \in ChunkSizes \ {0}, payload \in Payloads \ {"bad_chars"},
       outcome \in WriteOutcomes :
        ws_flush(size_bytes, payload, outcome)
WsSessionStats == ws_session_stats
WsStop == ws_stop
WsKeepalivePing == ws_keepalive_ping
WsFinalizeDone == \E outcome \in EngineOutcomes : ws_finalize_done(outcome)
WsPing == ws_ping
WsUnknown == \E type \in UnknownTypes : ws_unknown(type)
WsDisconnect == ws_disconnect

NextWs ==
    \/ WsInvalidJson
    \/ WsNonObject
    \/ WsStartMsg
    \/ WsAudio
    \/ WsTranscribeDone
    \/ WsFlush
    \/ WsSessionStats
    \/ WsStop
    \/ WsKeepalivePing
    \/ WsFinalizeDone
    \/ WsPing
    \/ WsUnknown
    \/ WsDisconnect

SpecWs == Init /\ [][NextWs]_vars

----------------------------------------------------------------------------
(* Specification of a cache file written and read by two threads *)

SetOpen == set_open
SetWriteBlock == set_write_block
SetCleanup == \E evict \in BOOLEAN : set_cleanup(evict)
GetExists == get_exists
GetOpen == get_open
GetReadBlock == \E parses \in BOOLEAN : get_read_block(parses)

NextRace ==
    \/ SetOpen
    \/ SetWriteBlock
    \/ SetCleanup
    \/ GetExists
    \/ GetOpen
    \/ GetReadBlock

SpecRace == Init /\ [][NextRace]_vars

----------------------------------------------------------------------------
(* Claims about the job registry *)

Kept == DOMAIN jobs \cap DOMAIN jobs'

\* C1: once a job is COMPLETED or FAILED, no later call changes any of its
\* fields (it can only be deleted).
C1_TerminalJobFrozen ==
    [][\A j \in Kept : jobs[j].status \in Terminal => jobs'[j] = jobs[j]]_vars

\* C2: started_at is set exactly once, at the job's first transition to
\* PROCESSING: a new job has none, a step that makes the job PROCESSING leaves
\* it set, it is set only by such a step and to the time of that step, and
\* once set it never changes.
C2_StartedAtSetOnce ==
    [][/\ \A j \in DOMAIN jobs' \ DOMAIN jobs : jobs'[j].started_at = NoTime
       /\ \A j \in Kept :
            /\ jobs[j].started_at # NoTime
                    => jobs'[j].started_at = jobs[j].started_at
            /\ jobs'[j].status = PROCESSING => jobs'[j].started_at # NoTime
            /\ (jobs[j].started_at = NoTime /\ jobs'[j].started_at # NoTime)
                    => /\ jobs'[j].status = PROCESSING
                       /\ jobs'[j].started_at = clock]_vars

\* A job started at one time, completed later and then updated to PROCESSING
\* again: started_at is still the time of the first transition.
C2_Witness ==
    \E j \in DOMAIN jobs :
        /\ jobs[j].status = PROCESSING
        /\ jobs[j].started_at # NoTime
        /\ jobs[j].completed_at > jobs[j].started_at

\* C3: completed_at, once set, is never overwritten.
C3_CompletedAtSetOnce ==
    [][\A j \in Kept :
            jobs[j].completed_at # NoTime
                => jobs'[j].completed_at = jobs[j].completed_at]_vars

Min(a, b) == IF a < b THEN a ELSE b

\* C4 as stated: list_jobs() (limit 50) returns exactly N-M jobs after N
\* creations and M successful deletions.
C4_ListReturnsAll ==
    (ret.op = "list" /\ ret.limit = DefaultLimit)
        => Len(ret.list) = nCreated - nDeleted

\* C4, amended: list_jobs(limit) returns min(N-M, limit) jobs, all of them
\* distinct jobs of the registry.
C4_ListReturnsUpToLimit ==
    ret.op = "list"
        => /\ Len(ret.list) = Min(nCreated - nDeleted, ret.limit)
           /\ \A i \in 1..Len(ret.list) : ret.list[i] \in DOMAIN jobs
           /\ \A i, k \in 1..Len(ret.list) : ret.list[i] = ret.list[k] => i = k

\* list_jobs() was called when more than 50 jobs were left after a deletion.
C4_Witness ==
    /\ ret.op = "list"
    /\ ret.limit = DefaultLimit
    /\ nDeleted >= 1
    /\ nCreated - nDeleted > DefaultLimit

\* C5: a create_job step leaves the new job in the registry as a fresh QUEUED
\* job, leaves no job created more than the expiration window ago, and removes
\* only such jobs (every other job stays as it was).
C5_CreateSweeps ==
    [][nextId' # nextId =>
        /\ nextId \in DOMAIN jobs'
        /\ jobs'[nextId] = Job(clock')
        /\ \A j \in DOMAIN jobs' :
                jobs'[j].created_at >= clock' - ExpirationHours * TicksPerHour
        /\ \A j \in DOMAIN jobs :
                jobs[j].created_at >= clock' - ExpirationHours * TicksPerHour
                    => (j \in DOMAIN jobs' /\ jobs'[j] = jobs[j])]_vars

\* A create_job call swept an expired job: nothing was deleted by hand and
\* only the new job is left.
C5_Witness ==
    /\ ret.op = "create"
    /\ nDeleted = 0
    /\ nCreated >= 2
    /\ DOMAIN jobs = {ret.job}

\* C6: while a job's transcription is running the registry lock is free, so
\* lookups, listings and deletions are not kept waiting.
C6_LockFreeWhileTranscribing ==
    (\E j \in DOMAIN wpc : wpc[j] = "transcribing")
        => /\ lock = NoHolder
           /\ ENABLED RunGet
           /\ ENABLED RunList
           /\ ENABLED RunDelete

\* A job was created while the transcription of another job was running.
C6_Witness ==
    \E j \in DOMAIN wpc :
        /\ wpc[j] = "transcribing"
        /\ ret.op = "create"
        /\ ret.job # j

----------------------------------------------------------------------------
(* Claims about the result cache *)

\* C7: a transcribe_file request answered from the cache returns the text the
\* engine produces for the request's own file, model, language and settings:
\* the fingerprint tells apart requests whose output-affecting settings differ.
C7_HitReturnsOwnResult ==
    (cret.op = "transcribe" /\ cret.hit)
        => cret.result.text = EngineText(cret.file, cret.stat, cret.settings)

\* the cleanup that follows a write keeps the entry just written: the entries
\* written strictly earlier hold at least the bytes that have to go
KeptByCleanup(call) ==
    call.older_bytes >= call.other_bytes + call.size - MaxCacheSize

C10_WithinBudgetAfterWrite ==
    cret.op \in {"set", "set_audio"} => TotalSize(cache) <= MaxCacheSize

\* C11: the hit and miss counters are cumulative under any interleaving of
\* the batch workers: every get that returns has incremented exactly one of
\* them by one, no step decreases them, and their sum is the number of gets
\* that have returned.
C11_CountersCumulative ==
    [][/\ cache_hits' >= cache_hits
       /\ cache_misses' >= cache_misses
       /\ batch'.gets = batch.gets + 1
            => \/ cache_hits' = cache_hits + 1 /\ cache_misses' = cache_misses
               \/ cache_misses' = cache_misses + 1 /\ cache_hits' = cache_hits
       /\ cache_hits' + cache_misses' = batch'.gets]_vars

\* C12: get_audio_processing_cache on an entry whose stored path no longer
\* exists, or whose file cannot be read, returns None, counts exactly one
\* miss and no hit, and raises nothing; what it returns on a hit is a path
\* that exists.
C12_StaleEntryIsMiss ==
    [][(cret'.op = "get_audio" /\ ncalls' = ncalls + 1)
        => /\ ~cret'.raised
           /\ (cret'.stale \/ cret'.unreadable)
                => /\ cret'.returned = "None"
                   /\ cache_misses' = cache_misses + 1
                   /\ cache_hits' = cache_hits
           /\ cret'.returned # "None" => cret'.returned \in DOMAIN files]_vars

\* A lookup found an entry that was readable but held a path that does not
\* exist, and answered None.
C12_Witness ==
    /\ cret.op = "get_audio"
    /\ cret.entry
    /\ cret.stale
    /\ ~cret.unreadable
    /\ cret.returned = "None"
    /\ cache_misses >= 1

----------------------------------------------------------------------------
(* Claims about chunked processing *)

\* C13: a source of duration D split with chunk duration d gives exactly
\* ceil(D/d) chunks with indices 0..N-1; chunk 0 starts at 0, every chunk
\* starts where the previous one ends, the last one ends at D, and every
\* chunk has end_time > start_time. A 12-minute source with d = 30 gives 24.
C13_ChunksPartitionSource ==
    chunked.pc = "transcribing"
        => LET chunks == chunked.chunks
               N == Len(chunks)
               D == chunked.duration
               d == chunked.chunk_duration
           IN  /\ N * d >= D
               /\ (N - 1) * d < D \/ N = 0
               /\ \A k \in 1..N :
                    /\ chunks[k].index = k - 1
                    /\ chunks[k].end_time > chunks[k].start_time
                    /\ chunks[k].duration = chunks[k].end_time - chunks[k].start_time
                    /\ chunks[k].duration <= d
               /\ N > 0 => chunks[1].start_time = 0 /\ chunks[N].end_time = D
               /\ \A k \in 1..(N - 1) : chunks[k + 1].start_time = chunks[k].end_time
               /\ Len(ChunkList(720, 30)) = 24

\* A source was split into several chunks of which the last is shorter than
\* the chunk duration.
C13_Witness ==
    /\ chunked.pc = "transcribing"
    /\ Len(chunked.chunks) >= 2
    /\ chunked.chunks[Len(chunked.chunks)].duration < chunked.chunk_duration

\* C14: chunks are extracted, transcribed and released one at a time, so at
\* any moment at most one chunk file exists, however many chunks the source
\* has.
C14_OneChunkFileAtATime ==
    Cardinality(chunked.temp_files) <= 1

\* the results of the 12-minute source of the scenario, split into 24 chunks
\* of 30 seconds, when only the chunk of index 10 fails
ScenarioResults ==
    LET chunks == ChunkList(720, 30)
    IN  [k \in 1..Len(chunks) |->
            chunk_result(chunks[k],
                IF chunks[k].index = 10
                THEN [success |-> FALSE, text |-> "None", segments |-> <<>>,
                      language |-> "None"]
                ELSE [success |-> TRUE, text |-> "t", language |-> "en",
                      segments |-> <<[start |-> 0, end |-> 30]>>])]

\* C15: whatever the outcomes of the chunks, processing runs to the merge;
\* the merge succeeds iff at least one chunk succeeded, and a successful
\* merge reports successful_chunks + failed_chunks = chunk_count and takes
\* its text and segments from the successful chunks only. With 24 chunks of
\* which one fails it reports 23 successful, 1 failed and success.
C15_FailedChunksAreExcluded ==
    (chunked.pc = "done" /\ chunked.chunks # <<>>)
        => LET rs == chunked.results
               ok == SelectSeq(rs, LAMBDA r : r.success)
               final == chunked.final
               scenario == merged_result(ScenarioResults, "en")
           IN  /\ Len(rs) = Len(chunked.chunks)
               /\ final.success <=> ok # <<>>
               /\ final.success =>
                    /\ final.chunk_count = Len(rs)
                    /\ final.successful_chunks = Len(ok)
                    /\ final.failed_chunks = Len(rs) - Len(ok)
                    /\ final.successful_chunks + final.failed_chunks = final.chunk_count
                    /\ final.text = JoinTexts(ok)
                    /\ final.segments = AllSegments(ok)
               /\ scenario.success
               /\ scenario.successful_chunks = 23
               /\ scenario.failed_chunks = 1

\* A merge over several chunks of which one failed and one succeeded.
C15_Witness ==
    /\ chunked.pc = "done"
    /\ chunked.final.success
    /\ chunked.final.failed_chunks >= 1
    /\ chunked.final.successful_chunks >= 1
    /\ \E k \in 1..(Len(chunked.results) - 1) :
            ~chunked.results[k].success /\ chunked.results[k + 1].success

\* C16: the merged segments are the segments of the successful chunks in
\* chunk-index order, each shifted by its chunk's start_time exactly once:
\* every segment lies inside its chunk's span of the source, and starts and
\* ends are non-decreasing along the merged sequence.
C16_SegmentsGlobalAndOrdered ==
    (chunked.pc = "done" /\ chunked.final.success)
        => LET rs == chunked.results
               segs == chunked.final.segments
           IN  /\ \A k \in 1..Len(rs) :
                    /\ rs[k].chunk_index = k - 1
                    /\ \A n \in 1..Len(rs[k].segments) :
                        /\ rs[k].segments[n].start >= chunked.chunks[k].start_time
                        /\ rs[k].segments[n].end <= chunked.chunks[k].end_time
                        /\ rs[k].segments[n].start < rs[k].segments[n].end
               /\ segs = AllSegments(SelectSeq(rs, LAMBDA r : r.success))
               /\ \A n \in 1..(Len(segs) - 1) :
                    /\ segs[n].start <= segs[n + 1].start
                    /\ segs[n].end <= segs[n + 1].start
                    /\ segs[n].end <= segs[n + 1].end

\* A merge holds segments of a chunk that does not start at 0, after
\* segments of an earlier chunk.
C16_Witness ==
    /\ chunked.pc = "done"
    /\ chunked.final.success
    /\ Len(chunked.final.segments) >= 3
    /\ chunked.final.segments[Len(chunked.final.segments)].start
            >= chunked.chunk_duration
    /\ chunked.final.segments[1].start = 0

\* the position of the first successful result with the given language
FirstOccurrence(results, lang) ==
    CHOOSE k \in 1..Len(results) :
        /\ results[k].language = lang
        /\ \A m \in 1..(k - 1) : results[m].language # lang

\* C17: the language of a merged result is the most frequent language of
\* the successful chunks and, among several most frequent ones, the one that
\* occurs first in chunk order.
C17_LanguageTieFirstOccurrence ==
    (chunked.pc = "done" /\ chunked.final.success)
        => LET ok == SelectSeq(chunked.results, LAMBDA r : r.success)
               lang == chunked.final.language
           IN  /\ lang \in {ok[k].language : k \in 1..Len(ok)}
               /\ \A k \in 1..Len(ok) :
                    \/ LanguageCount(ok, lang) > LanguageCount(ok, ok[k].language)
                    \/ /\ LanguageCount(ok, lang) = LanguageCount(ok, ok[k].language)
                       /\ FirstOccurrence(ok, lang) <= FirstOccurrence(ok, ok[k].language)

----------------------------------------------------------------------------
(* Claims about live streaming *)

\* C18: a push that brings the buffer to the threshold fires exactly one
\* transcription call, over the whole buffer, and when its handling has ended
\* the buffer holds the last overlap seconds of the flushed audio (all of it
\* if it is shorter than the overlap); a push that leaves the buffer below
\* the threshold fires no call and leaves the audio in the buffer.
C18_FlushKeepsOverlap ==
    stream.last.op = "push"
        => LET flushed == stream.last.flushed
               total == flushed.hi - flushed.lo
           IN  IF total >= stream.chunk_duration
               THEN /\ stream.last.reached
                    /\ stream.calls = stream.last.calls_before + 1
                    /\ stream.hi = flushed.hi
                    /\ get_duration(stream) =
                            (IF total < OverlapDuration THEN total ELSE OverlapDuration)
               ELSE /\ ~stream.last.reached
                    /\ stream.calls = stream.last.calls_before
                    /\ stream.lo = flushed.lo
                    /\ stream.hi = flushed.hi

\* C19: when the handling of the stop message has ended and the buffer held
\* more than 0.5 s, finalize has put the buffer through the engine exactly
\* once, and every sample pushed on the connection has been part of a
\* transcription call.
C19_FinalizeFlushesTail ==
    stream.last.op = "finalize"
        => LET tail == stream.last.tail
           IN  IF tail.hi - tail.lo > MinFinalDuration
               THEN /\ stream.calls = stream.last.calls_before + 1
                    /\ \A i \in 1..stream.hi : i \in stream.transcribed
               ELSE stream.calls = stream.last.calls_before

\* finalize flushed a tail below the trigger threshold after an earlier flush.
C19_Witness ==
    /\ stream.last.op = "finalize"
    /\ ~stream.last.raised
    /\ stream.last.tail.hi - stream.last.tail.lo > MinFinalDuration
    /\ stream.last.tail.hi - stream.last.tail.lo < stream.chunk_duration
    /\ stream.last.tail.hi - stream.last.tail.lo > OverlapDuration
    /\ stream.calls >= 2

\* C20: while a transcription call of the connection is in flight, an audio
\* message that has arrived is accepted and appended to the buffer.
C20_IngestionNotBlocked ==
    (/\ stream.pc = "transcribing"
     /\ stream.inbox # <<>>
     /\ Head(stream.inbox).type = "audio")
        => ENABLED ProcessAudioChunk

----------------------------------------------------------------------------
(* Claims about recording sessions and the WebSocket handler *)

RECURSIVE SumDurations(_)
SumDurations(chunks) ==
    IF chunks = <<>> THEN 0
    ELSE chunks[Len(chunks)].duration + SumDurations(SubSeq(chunks, 1, Len(chunks) - 1))

\* C22: in every reachable state of a RecordingSession, total_duration is
\* the sum of the durations of the chunks in its chunk list, and the
\* start_time of every chunk is the sum of the durations of the chunks
\* before it.
C22_TotalDurationIsSum ==
    LET obj == session.store.obj
    IN  /\ obj.total_duration = SumDurations(obj.chunks)
        /\ \A i \in 1..Len(obj.chunks) :
               obj.chunks[i].start_time = SumDurations(SubSeq(obj.chunks, 1, i - 1))

\* C23: cleanup() is idempotent: after any add_chunk calls a cleanup (by
\* itself or through remove_session) raises nothing and leaves no chunk
\* file and no session directory, and a second cleanup leaves that state
\* as it is.
C23_CleanupRemovesAllAndIsIdempotent ==
    (\/ session.ret.op = "cleanup"
     \/ session.ret.op = "remove_session" /\ session.ret.found)
        => /\ ~session.ret.raised
           /\ session.store.files = {}
           /\ ~session.store.dir
           /\ session.store.obj.chunks = <<>>
           /\ cleanup(session.store) = session.store

\* C24 as stated: pause_session(transcript) sets is_paused and stores the
\* transcript given, leaving chunks, files and total_duration as they
\* were; a resume_session() that follows clears is_paused and returns the
\* total_duration at pause and the transcript given at pause.
C24_PauseStoresGivenTranscript ==
    /\ (session.ret.op = "pause_session" /\ session.ret.found)
          => /\ session.store.obj.is_paused
             /\ session.store.obj.transcript_text = session.ret.transcript
             /\ session.store.obj.chunks = session.before.obj.chunks
             /\ session.store.obj.total_duration = session.before.obj.total_duration
             /\ session.store.files = session.before.files
             /\ session.store.dir = session.before.dir
    /\ (/\ session.ret.op = "resume_session"
        /\ session.prev.op = "pause_session" /\ session.prev.found)
          => /\ ~session.store.obj.is_paused
             /\ session.ret.result.prior_duration = session.before.obj.total_duration
             /\ session.ret.result.prior_transcript = session.prev.transcript

\* C24, amended: pause_session(transcript) sets is_paused and stores the
\* transcript if it is not empty (an empty one leaves the stored
\* transcript), leaving chunks, files and total_duration as they were; a
\* resume_session() that follows clears is_paused and returns the
\* total_duration and the stored transcript of the paused session.
C24_PauseStoresNonEmptyTranscript ==
    /\ (session.ret.op = "pause_session" /\ session.ret.found)
          => /\ session.store.obj.is_paused
             /\ session.store.obj.transcript_text =
                    IF session.ret.transcript # "" THEN session.ret.transcript
                    ELSE session.before.obj.transcript_text
             /\ session.store.obj.chunks = session.before.obj.chunks
             /\ session.store.obj.total_duration = session.before.obj.total_duration
             /\ session.store.files = session.before.files
             /\ session.store.dir = session.before.dir
    /\ (/\ session.ret.op = "resume_session"
        /\ session.prev.op = "pause_session" /\ session.prev.found)
          => /\ ~session.store.obj.is_paused
             /\ session.store.obj.chunks = session.before.obj.chunks
             /\ session.ret.result.prior_duration = session.before.obj.total_duration
             /\ session.ret.result.prior_transcript = session.before.obj.transcript_text
             /\ session.prev.transcript # ""
                  => session.ret.result.prior_transcript = session.prev.transcript

\* a session with a chunk is paused with a transcript and then resumed
C24_Witness ==
    /\ session.ret.op = "resume_session"
    /\ session.prev.op = "pause_session" /\ session.prev.found
    /\ session.prev.transcript = "hello"
    /\ session.ret.result.prior_duration > 0
    /\ session.store.files # {}

\* the last message was a flush with decodable data whose add_chunk failed
\* on the disk
FlushFailedOnDisk ==
    /\ ws.msg.kind = "flush"
    /\ ws.before.has_session
    /\ ws.msg.payload = "ok"
    /\ ws.msg.outcome # "ok"

\* C25: when persisting a chunk fails on the disk, the session keeps its
\* chunks and total_duration, the only answer is flush_ack with
\* success = false, the connection stays open, and an add_chunk of the same
\* bytes that succeeds gives what it would have given without the failed
\* call.
C25_FailedFlushLeavesSessionIntact ==
    FlushFailedOnDisk
        => /\ ws.reply = <<[type |-> "flush_ack", success |-> FALSE]>>
           /\ ws.pc = "open"
           /\ ws.has_session
           /\ ws.store.obj = ws.before.store.obj
           /\ ws.session_id \in ws.registry
           /\ ~add_chunk(ws.store, ws.msg.size_bytes, "ok").raised
           /\ add_chunk(ws.store, ws.msg.size_bytes, "ok") =
                  add_chunk(ws.before.store, ws.msg.size_bytes, "ok")

\* a write fails in a session that already holds a chunk
C25_Witness ==
    /\ FlushFailedOnDisk
    /\ ws.msg.outcome = "write_fails"
    /\ Len(ws.store.obj.chunks) > 0
    /\ ws.store.obj.total_duration > 0

\* the events of one type among those sent since the last message
Sent(type) == {i \in 1..Len(ws.reply) : ws.reply[i].type = type}

\* the handling of the last message ended in the handler's except clause
Raised == \E i \in Sent("error") : ws.reply[i].error = "exception"

\* C21: an engine failure on one buffer flush of a live session does not
\* abort the session: after an audio message whose transcription failed
\* the connection is open and the transcriber is still there for later
\* audio and for stop.
C21_FailedFlushKeepsConnection ==
    (ws.msg.kind = "audio" /\ Raised) => (ws.pc = "open" /\ ws.transcriber)

\* the last message was malformed: not JSON, JSON that is no object, of a
\* type the protocol does not have, audio whose data is not base64, or a
\* message sent out of order (audio before start, flush or session_stats
\* without a session)
Malformed ==
    \/ ws.msg.kind \in {"invalid_json", "non_object"} \cup UnknownTypes
    \/ ws.msg.kind = "audio" /\ ~ws.before.transcriber
    \/ ws.msg.kind = "audio" /\ ws.msg.payload # "ok"
    \/ ws.msg.kind \in {"flush", "session_stats"} /\ ~ws.before.has_session

\* C26: a malformed message is answered with one error event, the
\* connection stays open, and the transcriber and the session are as they
\* were before the message.
C26_MalformedMessageAnsweredWithError ==
    Malformed
        => /\ Len(ws.reply) = 1
           /\ ws.reply[1].type = "error"
           /\ ws.pc = "open"
           /\ ws.transcriber = ws.before.transcriber
           /\ ws.buffer = ws.before.buffer
           /\ ws.texts = ws.before.texts
           /\ ws.has_session = ws.before.has_session
           /\ ws.store = ws.before.store

\* the teardown operations among the steps run since the last message
Teardown ==
    {i \in 1..Len(ws.steps) : ws.steps[i].op \in {"transcriber.cleanup", "remove_session"}}

\* C27: a stop is answered with exactly one complete event, sent after
\* finalize has finished and before the transcriber is cleaned up and the
\* session removed; while finalize is pending only pings are added and
\* nothing is torn down.
C27_StopYieldsOneCompleteBeforeTeardown ==
    /\ (ws.msg.kind = "stop" /\ ws.pc = "finalizing")
          => /\ Sent("complete") = {}
             /\ Teardown = {}
    /\ (ws.msg.kind = "stop" /\ ws.pc = "closed")
          => /\ Cardinality(Sent("complete")) = 1
             /\ ws.completes = 1
             /\ \A c \in Sent("complete") :
                   /\ \A i \in Teardown : ws.steps[i].sent >= c
                   /\ \A i \in 1..Len(ws.steps) :
                          ws.steps[i].op = "finalize_finished" => ws.steps[i].sent < c

\* C28: ready carries a session identifier exactly when the start message
\* enabled persistence, and the complete event that answers the stop of a
\* connection with a session reports can_continue and the session
\* identifier.
C28_ReadyAndCompleteCarrySession ==
    /\ ws.msg.kind = "start"
          => /\ Len(ws.reply) = 1
             /\ ws.reply[1].type = "ready"
             /\ (ws.reply[1].session_id # NoSessionId) <=> ws.msg.enable_persistence
    /\ (ws.msg.kind = "stop" /\ ws.pc = "closed" /\ ws.before.has_session)
          => \A c \in Sent("complete") :
                 {"can_continue", "session_id"} \subseteq ws.reply[c].keys

\* C29: once a session has been started, pause is answered with
\* pause_ack and resume with resume_ack, each as the next event sent, and
\* the connection stays open for a later stop.
C29_PauseAndResumeAcknowledged ==
    \A type \in {"pause", "resume"} :
        (ws.msg.kind = type /\ ws.before.transcriber)
            => /\ Len(ws.reply) >= 1
               /\ ws.reply[1].type = type \o "_ack"
               /\ ws.pc = "open"
               /\ ws.transcriber

----------------------------------------------------------------------------
(* Claims about deleting jobs *)

\* C30: delete_job is idempotent: on an id that is absent or already
\* deleted it returns false and leaves the registry as it is; on a present
\* id it returns true and removes that job only, every other job staying
\* as it was, so that a second delete of the id finds it absent.
C30_DeleteJobIdempotent ==
    [][\A j \in RunJobIds :
          delete_job(j) =>
              /\ ret'.op = "delete" /\ ret'.job = j
              /\ j \notin DOMAIN jobs'
              /\ IF j \in DOMAIN jobs
                 THEN /\ ret'.found
                      /\ DOMAIN jobs' = DOMAIN jobs \ {j}
                      /\ \A k \in DOMAIN jobs' : jobs'[k] = jobs[k]
                 ELSE /\ ~ret'.found
                      /\ jobs' = jobs]_vars

\* a job that was deleted is deleted again while another job is registered
C30_Witness ==
    /\ ret.op = "delete"
    /\ ~ret.found
    /\ ret.job < nextId
    /\ ret.job \notin DOMAIN jobs
    /\ nDeleted >= 1
    /\ DOMAIN jobs # {}

----------------------------------------------------------------------------
(* Claims about eviction and concurrent use of the result cache *)

\* the cache file a set_transcription_cache call writes, and the cache
\* right after the write, before the cleanup
WrittenPath(c) ==
    _get_cache_path("transcriptions",
        _generate_cache_key(
            set_cache_content(c.file, c.stat, c.model, c.language, c.settings_hash),
            "transcription"))
WrittenCache(old, c, now) == WriteEntry(old, WrittenPath(c), c.result, c.size, now)

C32_ReadersSeeWholeEntries ==
    race.ret.kind = "value"
        => \E version \in 0..MaxRaceSets : race.ret.value = Entry(version)

\* the texts of the transcription calls that gave one, in call order
RECURSIVE Fragments(_, _)
Fragments(calls, n) ==
    IF n = 0 THEN <<>>
    ELSE IF calls[n] = "text"
    THEN Append(Fragments(calls, n - 1), FragmentText(n))
    ELSE Fragments(calls, n - 1)

\* C33: the flushes of a live session are transcribed one at a time and in
\* the order they were triggered: at most one call is in flight, the
\* running transcript holds the texts of the calls in call order, and the
\* text of complete, which is what finalize returned, is those texts
\* joined in that order.
C33_OneCallAtATimeInOrder ==
    /\ ws.in_flight \in {0, 1}
    /\ ws.in_flight = 1 <=> ws.pc \in {"transcribing", "finalizing"}
    /\ ws.pc # "closed" => ws.texts = Fragments(ws.calls, Len(ws.calls))
    /\ (ws.msg.kind = "stop" /\ ws.pc = "closed" /\ ws.before.transcriber)
          => \A c \in Sent("complete") :
                 ws.reply[c].text = join(Fragments(ws.calls, Len(ws.calls)))

\* a stop was answered with the texts of three calls, the second of which
\* gave none
C33_Witness ==
    /\ ws.msg.kind = "stop"
    /\ ws.pc = "closed"
    /\ ws.calls = <<"text", "empty", "text">>
    /\ \E c \in Sent("complete") : ws.reply[c].text = "t1 t3"

\* C36: when the connection has ended, by stop, disconnect or error, every
\* session created on it has been removed from the SessionManager and its
\* chunk files and directory are gone.
C36_NoSessionOutlivesConnection ==
    ws.pc = "closed"
        => /\ ws.registry = {}
           /\ ws.has_session => (ws.store.files = {} /\ ~ws.store.dir)
           /\ \A i \in 1..Len(ws.orphaned) :
                  /\ ws.orphaned[i].store.files = {}
                  /\ ~ws.orphaned[i].store.dir

C35_JobUsesItsOwnSettings ==
    \A j \in 1..Len(api.jobs) :
        api.jobs[j].pc = "done"
            => /\ api.jobs[j].key_read = api.jobs[j].submitted
               /\ api.jobs[j].result = api.jobs[j].submitted
               /\ ~api.jobs[j].from_cache
                      => /\ api.jobs[j].engine_settings = api.jobs[j].submitted
                         /\ api.jobs[j].stored_key = api.jobs[j].submitted

\* C37: a job that run_transcription_job has brought to COMPLETED has a
\* result set, and one it has brought to FAILED has a non-empty error
\* message set.
C37_TerminalJobsCarryOutcome ==
    \A id \in DOMAIN jobs :
        /\ jobs[id].status = COMPLETED => jobs[id].result # NoResult
        /\ jobs[id].status = FAILED => jobs[id].error \notin {NoError, ""}

\* C38: a job that delete_job or the expiration sweep has removed stays
\* removed: no later step puts its id back into the registry, and the
\* update_job_status call its background worker makes when the
\* transcription ends finds nothing, changes nothing and raises nothing.
C38_DeletedJobStaysDeleted ==
    [][\A id \in 1..(nextId - 1) :
           id \notin DOMAIN jobs
               => /\ id \notin DOMAIN jobs'
                  /\ (wpc[id] = "transcribing" /\ wpc'[id] = "done")
                         => /\ ret' = [op |-> "update", job |-> id, found |-> FALSE]
                            /\ jobs' = jobs]_vars

C38_Witness ==
    /\ ret.op = "update"
    /\ ~ret.found
    /\ ret.job \notin DOMAIN jobs
    /\ wpc[ret.job] = "done"

\* C39: every successful transcribe_file call, served by the engine or by
\* a cache hit, returns as output_file the output path of that call and has
\* written that file in that call.
C39_OutputFileIsOfThisCall ==
    (cret.op = "transcribe" /\ cret.result.success)
        => /\ cret.result.output_file = output_path(cret.file, cret.out)
           /\ cret.written_output = output_path(cret.file, cret.out)

====
